---- MODULE Spec2Model ----
(***************************************************************************)
(* Validation-combinator engine (8/src): validators are immutable          *)
(* configuration records, validate is a recursive function of              *)
(* (validator, value, path).  A client program builds validator instances  *)
(* through the Schema factory and the builder methods (each call allocates *)
(* a new instance on the heap) and calls validate on them.                 *)
(*                                                                         *)
(* JavaScript values are records [k, s, n, items]:                         *)
(*   k = "undefined" | "null" | "string" | "number" | "boolean" | "date"   *)
(*       | "array" | "object" | "entry" | "cycle"                          *)
(*   string : s is the text                                                *)
(*   number : n is TWICE the value (so 3 is 1.5); s is "" or one of        *)
(*            "NaN", "Infinity", "-Infinity"                               *)
(*   boolean: n is 1 (true) or 0 (false)                                   *)
(*   date   : n is the epoch instant, s = "Invalid Date" for a NaN time    *)
(*   array  : items are the elements                                       *)
(*   object : items are the own properties in insertion order, each an     *)
(*            "entry" with s the key and items = <<value>>                 *)
(*   cycle  : a property or element whose value is the container that      *)
(*            holds it (x.self = x)                                        *)
(***************************************************************************)
EXTENDS Integers, Sequences, FiniteSets, TLC

\* heap   : the validator instances created so far
\* made   : for each instance, the call that created it (history)
\* input, path : the value the client validates and the path it passes
\* target, result : the instance validate was last called on (0: none yet)
\*                  and what the call returned
\* lastIndex : the lastIndex property of the global-flag RegExp
\* now    : the host clock, in milliseconds since the epoch
\* stack  : the validate calls in progress when a call is followed step by
\*          step, the outermost first (empty between calls)
\* game   : the Sea Battle game object (the second program of the
\*          repository; NoGame while the validation library is followed)
VARIABLES heap, made, target, input, path, result, lastIndex, now, stack,
          game

vars ==
  <<heap, made, target, input, path, result, lastIndex, now, stack, game>>

NoGame == [pc |-> "none"]

-----------------------------------------------------------------------------
(* JavaScript values *)

Val(k, s, n, items) == [k |-> k, s |-> s, n |-> n, items |-> items]

Undef == Val("undefined", "", 0, <<>>)
Null == Val("null", "", 0, <<>>)
Str(s) == Val("string", s, 0, <<>>)
Num(n) == Val("number", "", 2 * n, <<>>)
Half(h) == Val("number", "", h, <<>>)
NaN == Val("number", "NaN", 0, <<>>)
Infinity == Val("number", "Infinity", 0, <<>>)
NegInfinity == Val("number", "-Infinity", 0, <<>>)
Bool(b) == Val("boolean", "", IF b THEN 1 ELSE 0, <<>>)
DateObj(t) == Val("date", "", t, <<>>)
InvalidDate == Val("date", "Invalid Date", 0, <<>>)
Arr(items) == Val("array", "", 0, items)
Entry(key, v) == Val("entry", key, 0, <<v>>)
Obj(entries) == Val("object", "", 0, entries)
Cycle == Val("cycle", "", 0, <<>>)

\* typeof value
TypeOf(x) ==
  CASE x.k = "undefined" -> "undefined"
    [] x.k = "string" -> "string"
    [] x.k = "number" -> "number"
    [] x.k = "boolean" -> "boolean"
    [] OTHER -> "object"

\* Array.isArray(value)
IsArray(x) == x.k = "array"

\* !!value
Truthy(x) ==
  CASE x.k \in {"undefined", "null"} -> FALSE
    [] x.k = "string" -> x.s # ""
    [] x.k = "number" -> x.s # "NaN" /\ (x.s # "" \/ x.n # 0)
    [] x.k = "boolean" -> x.n = 1
    [] OTHER -> TRUE

\* Object.keys(value)
RECURSIVE ObjectKeys(_)
ObjectKeys(entries) ==
  IF entries = <<>> THEN <<>>
  ELSE <<Head(entries).s>> \o ObjectKeys(Tail(entries))

HasKey(x, key) == \E i \in DOMAIN x.items : x.items[i].s = key

\* value[key] on an object: undefined when the key is missing; a property
\* that refers back to its container yields the container
GetProp(x, key) ==
  IF HasKey(x, key)
  THEN LET i == CHOOSE j \in DOMAIN x.items : x.items[j].s = key
           raw == x.items[i].items[1]
       IN IF raw.k = "cycle" THEN x ELSE raw
  ELSE Undef

\* value[i] on an array
GetItem(x, i) == IF x.items[i].k = "cycle" THEN x ELSE x.items[i]

\* validatedObject[key] = data
SetProp(x, key, v) ==
  IF HasKey(x, key)
  THEN LET i == CHOOSE j \in DOMAIN x.items : x.items[j].s = key
       IN [x EXCEPT !.items[i] = Entry(key, v)]
  ELSE [x EXCEPT !.items = Append(@, Entry(key, v))]

\* the value graph reachable from x contains a cycle
RECURSIVE HasCycle(_)
HasCycle(x) ==
  \/ x.k = "cycle"
  \/ \E i \in DOMAIN x.items : HasCycle(x.items[i])

-----------------------------------------------------------------------------
(* Strings and numbers *)

IsSpace(c) == c = " "
IsDigit(c) == c \in {"0", "1", "2", "3", "4", "5", "6", "7", "8", "9"}
Lower == <<"a","b","c","d","e","f","g","h","i","j","k","l","m",
           "n","o","p","q","r","s","t","u","v","w","x","y","z">>
Upper == <<"A","B","C","D","E","F","G","H","I","J","K","L","M",
           "N","O","P","Q","R","S","T","U","V","W","X","Y","Z">>
IsLower(c) == \E i \in DOMAIN Lower : Lower[i] = c
IsUpper(c) == \E i \in DOMAIN Upper : Upper[i] = c
IsAlpha(c) == IsLower(c) \/ IsUpper(c)
CharAt(s, i) == SubSeq(s, i, i)

\* String.prototype.trim
RECURSIVE TrimLeft(_)
TrimLeft(s) ==
  IF Len(s) > 0 /\ IsSpace(CharAt(s, 1)) THEN TrimLeft(SubSeq(s, 2, Len(s)))
  ELSE s
RECURSIVE TrimRight(_)
TrimRight(s) ==
  IF Len(s) > 0 /\ IsSpace(CharAt(s, Len(s)))
  THEN TrimRight(SubSeq(s, 1, Len(s) - 1))
  ELSE s
Trim(s) == TrimRight(TrimLeft(s))

\* String.prototype.toLowerCase
RECURSIVE ToLowerCase(_)
ToLowerCase(s) ==
  IF Len(s) = 0 THEN s
  ELSE LET c == CharAt(s, 1)
           lc == IF IsUpper(c)
                 THEN Lower[CHOOSE i \in DOMAIN Upper : Upper[i] = c]
                 ELSE c
       IN lc \o ToLowerCase(SubSeq(s, 2, Len(s)))

AllChars(s, P(_)) == \A i \in 1..Len(s) : P(CharAt(s, i))

\* String.prototype.includes, startsWith, endsWith
Includes(s, sub) ==
  \E i \in 1..(Len(s) - Len(sub) + 1) : SubSeq(s, i, i + Len(sub) - 1) = sub
StartsWith(s, sub) == Len(s) >= Len(sub) /\ SubSeq(s, 1, Len(sub)) = sub
EndsWith(s, sub) ==
  Len(s) >= Len(sub) /\ SubSeq(s, Len(s) - Len(sub) + 1, Len(s)) = sub

\* the text of a finite number held as twice its value
NumToString(h) ==
  LET a == IF h < 0 THEN -h ELSE h
      sign == IF h < 0 THEN "-" ELSE ""
  IN sign \o ToString(a \div 2) \o (IF a % 2 = 1 THEN ".5" ELSE "")

\* String(number)
NumText(x) == IF x.s # "" THEN x.s ELSE NumToString(x.n)

\* value < bound, value > bound for a non-NaN number and a finite bound
NumLess(x, h) == x.s = "-Infinity" \/ (x.s = "" /\ x.n < h)
NumGreater(x, h) == x.s = "Infinity" \/ (x.s = "" /\ x.n > h)

\* value % divisor !== 0: the remainder is NaN for an infinite dividend or a
\* zero divisor, otherwise the truncated remainder
RemNonZero(x, h) ==
  \/ x.s # ""
  \/ h = 0
  \/ LET a == IF x.n < 0 THEN -x.n ELSE x.n
         b == IF h < 0 THEN -h ELSE h
     IN a % b # 0

-----------------------------------------------------------------------------
(* ValidationResult / ValidationError *)

\* faulty variant: the first rule that fails ends the checks
RECURSIVE PushFirst(_)
PushFirst(pushed) ==
  IF pushed = <<>> THEN <<>>
  ELSE IF Head(pushed) # <<>> THEN Head(pushed)
  ELSE PushFirst(Tail(pushed))

\* the errors a validateValue call pushed, rule after rule
RECURSIVE PushAll(_)
PushAll(pushed) ==
  IF pushed = <<>> THEN <<>> ELSE Head(pushed) \o PushAll(Tail(pushed))

\* faulty variant: the error is filed under the default path
createErrorAtRoot(p, message, value) ==
  [path |-> "root", message |-> message, value |-> value]

createError(p, message, value) ==
  [path |-> p, message |-> message, value |-> value]

createSuccess(data) ==
  [isValid |-> TRUE, data |-> data, errors |-> <<>>, threw |-> FALSE]

\* faulty variant: the failure hands the rejected value back as data
createFailureWithData(errors) ==
  [isValid |-> FALSE, data |-> errors[1].value, errors |-> errors,
   threw |-> FALSE]

createFailure(errors) ==
  [isValid |-> FALSE, data |-> Undef, errors |-> errors, threw |-> FALSE]

\* the call did not return: an exception left validate
Thrown == [isValid |-> FALSE, data |-> Undef, errors |-> <<>>, threw |-> TRUE]

\* no validate call was made yet
NoResult == [isValid |-> TRUE, data |-> Undef, errors |-> <<>>, threw |-> FALSE]

-----------------------------------------------------------------------------
(* Validator instances: the options object of each class, the item validator *)
(* of an array (kids), the schema of an object (keys, kids in declaration    *)
(* order), the members of a union (kids), the wrapped validator of nullable  *)
(* (kids).  An option that is undefined is the empty sequence.  Schema keys  *)
(* are identifier names, which Object.entries lists in declaration order.    *)

NewValidator(fam, kids, keys) ==
  [fam |-> fam, optional |-> FALSE, message |-> <<>>,
   minLength |-> <<>>, maxLength |-> <<>>, pattern |-> "", trim |-> FALSE,
   email |-> FALSE, url |-> FALSE, uuid |-> FALSE,
   min |-> <<>>, max |-> <<>>, integer |-> FALSE, positive |-> FALSE,
   negative |-> FALSE, finite |-> FALSE, multipleOf |-> <<>>,
   strict |-> FALSE, truthy |-> FALSE, format |-> "",
   unique |-> FALSE, noEmpty |-> FALSE, partial |-> FALSE,
   allowNull |-> FALSE, kids |-> kids, keys |-> keys]

BaseFamilies == {"string", "number", "boolean", "date", "array", "object"}

\* Schema.string(), Schema.number(), Schema.boolean(), Schema.date()
SchemaString == NewValidator("string", <<>>, <<>>)
SchemaNumber == NewValidator("number", <<>>, <<>>)
SchemaBoolean == NewValidator("boolean", <<>>, <<>>)
SchemaDate == NewValidator("date", <<>>, <<>>)
\* Schema.array(itemValidator), Schema.object(schema)
SchemaArray(item) == NewValidator("array", <<item>>, <<>>)
SchemaObject(keys, kids) == NewValidator("object", kids, keys)
\* Schema.any(), Schema.nullable(validator), Schema.union(validators)
SchemaAny == NewValidator("any", <<>>, <<>>)
SchemaNullable(v) == NewValidator("nullable", <<v>>, <<>>)
SchemaUnion(members) == NewValidator("union", members, <<>>)

-----------------------------------------------------------------------------
(* StringValidator *)

\* the one RegExp object with the global flag that the client creates,
\* /^[a-z]+$/g; its lastIndex property is the variable lastIndex
GlobalPattern == "/^[a-z]+$/g"

\* RegExp.prototype.test for the patterns the model configures; a global
\* RegExp starts the match at lastIndex, where ^ matches at index 0 only
RegExpTest(pattern, s) ==
  CASE pattern = "^[0-9]+$" -> Len(s) > 0 /\ AllChars(s, IsDigit)
    [] pattern = "^[a-z]+$" -> Len(s) > 0 /\ AllChars(s, IsLower)
    [] pattern = GlobalPattern ->
         lastIndex = 0 /\ Len(s) > 0 /\ AllChars(s, IsLower)
    [] OTHER -> FALSE

\* lastIndex after pattern.test(s): the end of the match when a global RegExp
\* matched, 0 when it did not; other RegExps leave it alone
RegExpLastIndex(pattern, s) ==
  IF pattern # GlobalPattern THEN lastIndex
  ELSE IF RegExpTest(pattern, s) THEN Len(s) ELSE 0

\* lastIndex after validate(value) on a string validator, or a nullable of
\* one: the pattern is tested once when the value is a string that the
\* optional short-circuit did not take
RECURSIVE LastIndexAfter(_, _)
LastIndexAfter(v, value) ==
  IF v.fam = "nullable"
  THEN IF value.k \in {"null", "undefined"} THEN lastIndex
       ELSE LastIndexAfter(v.kids[1], value)
  ELSE IF v.fam = "string" /\ TypeOf(value) = "string" /\ v.pattern # ""
  THEN RegExpLastIndex(v.pattern, IF v.trim THEN Trim(value.s) ELSE value.s)
  ELSE lastIndex

\* /^[a-zA-Z0-9._%+-]+@[a-zA-Z0-9.-]+\.[a-zA-Z]{2,}$/.test(s)
IsLocalChar(c) == IsAlpha(c) \/ IsDigit(c) \/ c \in {".", "_", "%", "+", "-"}
IsDomainChar(c) == IsAlpha(c) \/ IsDigit(c) \/ c \in {".", "-"}
EmailRegexTest(s) ==
  \E at \in 2..Len(s) :
    /\ CharAt(s, at) = "@"
    /\ AllChars(SubSeq(s, 1, at - 1), IsLocalChar)
    /\ \E dot \in (at + 2)..(Len(s) - 2) :
         /\ CharAt(s, dot) = "."
         /\ AllChars(SubSeq(s, at + 1, dot - 1), IsDomainChar)
         /\ AllChars(SubSeq(s, dot + 1, Len(s)), IsAlpha)

\* the email rule: the pattern, and no "..", no leading or trailing ".", no
\* space
IsEmail(s) ==
  /\ EmailRegexTest(s)
  /\ ~Includes(s, "..")
  /\ ~StartsWith(s, ".") /\ ~EndsWith(s, ".")
  /\ ~Includes(s, " ")

\* the url rule: new URL(s) does not throw, the protocol is http: or https:
\* and the hostname neither is empty nor starts or ends with "."; for the
\* strings of the model, which either have no scheme (new URL throws) or are
\* scheme://host with a host of letters, digits, "." and "-"
UrlHost(s) ==
  IF StartsWith(s, "http://") THEN SubSeq(s, 8, Len(s))
  ELSE IF StartsWith(s, "https://") THEN SubSeq(s, 9, Len(s))
  ELSE ""
IsUrl(s) ==
  /\ UrlHost(s) # ""
  /\ AllChars(UrlHost(s), IsDomainChar)
  /\ ~StartsWith(UrlHost(s), ".") /\ ~EndsWith(UrlHost(s), ".")

\* /^[0-9a-f]{8}-[0-9a-f]{4}-[1-5][0-9a-f]{3}-[89ab][0-9a-f]{3}-[0-9a-f]{12}$/i
IsHex(c) ==
  IsDigit(c) \/ c \in {"a", "b", "c", "d", "e", "f", "A", "B", "C", "D", "E", "F"}
UuidRegexTest(s) ==
  /\ Len(s) = 36
  /\ \A i \in 1..36 :
       IF i \in {9, 14, 19, 24} THEN CharAt(s, i) = "-"
       ELSE IF i = 15 THEN CharAt(s, i) \in {"1", "2", "3", "4", "5"}
       ELSE IF i = 20 THEN CharAt(s, i) \in {"8", "9", "a", "b", "A", "B"}
       ELSE IsHex(CharAt(s, i))

StringValidateValue(v, value, p) ==
  IF TypeOf(value) # "string"
  THEN createFailure(<<createError(p,
         "Expected string, received " \o TypeOf(value), value)>>)
  ELSE
    LET stringValue == IF v.trim THEN Trim(value.s) ELSE value.s
        e1 == IF v.minLength # <<>> /\ Len(stringValue) < v.minLength[1]
              THEN <<createError(p, "String must be at least "
                       \o ToString(v.minLength[1]) \o " characters long",
                       value)>>
              ELSE <<>>
        e2 == IF v.maxLength # <<>> /\ Len(stringValue) > v.maxLength[1]
              THEN <<createError(p, "String must be at most "
                       \o ToString(v.maxLength[1]) \o " characters long",
                       value)>>
              ELSE <<>>
        e3 == IF v.pattern # "" /\ ~RegExpTest(v.pattern, stringValue)
              THEN <<createError(p,
                       "String does not match required pattern", value)>>
              ELSE <<>>
        e4 == IF v.email /\ ~IsEmail(stringValue)
              THEN <<createError(p, "Invalid email format", value)>>
              ELSE <<>>
        e5 == IF v.url /\ ~IsUrl(stringValue)
              THEN <<createError(p, "Invalid URL format", value)>>
              ELSE <<>>
        e6 == IF v.uuid /\ ~UuidRegexTest(stringValue)
              THEN <<createError(p, "Invalid UUID format", value)>>
              ELSE <<>>
        errors == PushAll(<<e1, e2, e3, e4, e5, e6>>)
    IN IF Len(errors) > 0 THEN createFailure(errors)
       ELSE createSuccess(Str(stringValue))

-----------------------------------------------------------------------------
(* NumberValidator; the options min, max and multipleOf hold twice the bound *)

NumberValidateValue(v, value, p) ==
  IF TypeOf(value) # "number"
  THEN createFailure(<<createError(p,
         "Expected number, received " \o TypeOf(value), value)>>)
  ELSE IF value.s = "NaN"
  THEN createFailure(<<createError(p,
         "Value must be a valid number (not NaN)", value)>>)
  ELSE
    LET e1 == IF v.finite /\ value.s # ""
              THEN <<createError(p, "Number must be finite", value)>>
              ELSE <<>>
        e2 == IF v.min # <<>> /\ NumLess(value, v.min[1])
              THEN <<createError(p, "Number must be at least "
                       \o NumToString(v.min[1]), value)>>
              ELSE <<>>
        e3 == IF v.max # <<>> /\ NumGreater(value, v.max[1])
              THEN <<createError(p, "Number must be at most "
                       \o NumToString(v.max[1]), value)>>
              ELSE <<>>
        e4 == IF v.integer /\ ~(value.s = "" /\ value.n % 2 = 0)
              THEN <<createError(p, "Number must be an integer", value)>>
              ELSE <<>>
        e5 == IF v.positive /\ ~NumGreater(value, 0)
              THEN <<createError(p, "Number must be positive", value)>>
              ELSE <<>>
        e6 == IF v.negative /\ ~NumLess(value, 0)
              THEN <<createError(p, "Number must be negative", value)>>
              ELSE <<>>
        e7 == IF v.multipleOf # <<>> /\ RemNonZero(value, v.multipleOf[1])
              THEN <<createError(p, "Number must be a multiple of "
                       \o NumToString(v.multipleOf[1]), value)>>
              ELSE <<>>
        errors == PushAll(<<e1, e2, e3, e4, e5, e6, e7>>)
    IN IF Len(errors) > 0 THEN createFailure(errors)
       ELSE createSuccess(value)

-----------------------------------------------------------------------------
(* BooleanValidator *)

BooleanValidateValue(v, value, p) ==
  IF v.strict
  THEN IF TypeOf(value) # "boolean"
       THEN createFailure(<<createError(p,
              "Expected boolean, received " \o TypeOf(value), value)>>)
       ELSE createSuccess(value)
  ELSE IF v.truthy
  THEN createSuccess(Bool(Truthy(value)))
  ELSE IF TypeOf(value) = "boolean"
  THEN createSuccess(value)
  ELSE
    LET lowerValue == Trim(ToLowerCase(value.s))
    IN IF TypeOf(value) = "string"
          /\ lowerValue \in {"true", "1", "yes", "on"}
       THEN createSuccess(Bool(TRUE))
       ELSE IF TypeOf(value) = "string"
               /\ lowerValue \in {"false", "0", "no", "off"}
       THEN createSuccess(Bool(FALSE))
       ELSE IF TypeOf(value) = "number" /\ value.s = "" /\ value.n = 2
       THEN createSuccess(Bool(TRUE))
       ELSE IF TypeOf(value) = "number" /\ value.s = "" /\ value.n = 0
       THEN createSuccess(Bool(FALSE))
       ELSE createFailure(<<createError(p,
              "Cannot convert " \o TypeOf(value) \o " to boolean", value)>>)

-----------------------------------------------------------------------------
(* Dates.  A Date object is Val("date", ms, day, <<>>): n is the day number  *)
(* since the epoch and s the decimal text of the millisecond within the day  *)
(* (the instant is day * MsPerDay + ms), or s = "Invalid Date" for a NaN     *)
(* time.  The options min and max of a date validator hold <<day, ms>>.      *)

MsPerDay == 24 * 60 * 60 * 1000

DigitValue(c) == CHOOSE d \in 0..9 : ToString(d) = c

\* the leading decimal digits of s as a number, <<>> when there are none
\* (parseInt(s, 10) on text without sign or leading blanks)
RECURSIVE ParseDigits(_, _, _)
ParseDigits(s, acc, seen) ==
  IF Len(s) > 0 /\ IsDigit(CharAt(s, 1))
  THEN ParseDigits(SubSeq(s, 2, Len(s)), 10 * acc + DigitValue(CharAt(s, 1)),
                   TRUE)
  ELSE IF seen THEN <<acc>> ELSE <<>>
ParseInt(s) == ParseDigits(TrimLeft(s), 0, FALSE)

DateAt(day, ms) == Val("date", ToString(ms), day, <<>>)
DateMs(d) == ParseInt(d.s)[1]
IsInvalidDate(d) == d.s = "Invalid Date"

\* dateValue < bound, dateValue > bound
DateLess(d, bound) ==
  d.n < bound[1] \/ (d.n = bound[1] /\ DateMs(d) < bound[2])
DateGreater(d, bound) ==
  d.n > bound[1] \/ (d.n = bound[1] /\ DateMs(d) > bound[2])

\* day number of the civil date y-m-d (proleptic Gregorian, y >= 1970)
IsLeap(y) == (y % 4 = 0 /\ y % 100 # 0) \/ y % 400 = 0
DaysBeforeYear(y) ==
  365 * (y - 1970) + ((y - 1969) \div 4) - ((y - 1901) \div 100)
    + ((y - 1601) \div 400)
MonthStart == <<0, 31, 59, 90, 120, 151, 181, 212, 243, 273, 304, 334>>
DaysFromCivil(y, m, d) ==
  DaysBeforeYear(y) + MonthStart[m] + (IF m > 2 /\ IsLeap(y) THEN 1 ELSE 0)
    + (d - 1)

Digits(s, from, to) == AllChars(SubSeq(s, from, to), IsDigit)

\* /^\d{4}-\d{2}-\d{2}$/
IsDateOnly(s) ==
  /\ Len(s) = 10
  /\ Digits(s, 1, 4) /\ CharAt(s, 5) = "-" /\ Digits(s, 6, 7)
  /\ CharAt(s, 8) = "-" /\ Digits(s, 9, 10)

\* /^\d{4}-\d{2}-\d{2}T\d{2}:\d{2}:\d{2}(\.\d{3})?Z?$/
IsoRegexTest(s) ==
  LET body == IF Len(s) > 0 /\ CharAt(s, Len(s)) = "Z"
              THEN SubSeq(s, 1, Len(s) - 1) ELSE s
  IN /\ Len(body) \in {19, 23}
     /\ IsDateOnly(SubSeq(body, 1, 10))
     /\ CharAt(body, 11) = "T"
     /\ Digits(body, 12, 13) /\ CharAt(body, 14) = ":"
     /\ Digits(body, 15, 16) /\ CharAt(body, 17) = ":"
     /\ Digits(body, 18, 19)
     /\ (Len(body) = 23 => CharAt(body, 20) = "." /\ Digits(body, 21, 23))

Field(s, from, to) == ParseInt(SubSeq(s, from, to))[1]

\* new Date(string) for the ISO date and date-time forms (V8: month 1..12,
\* day 1..31, a day past the end of the month rolls into the next month; a
\* date-time without Z is local time, taken here in a UTC host zone); any
\* other text is Invalid Date.  Text that V8's legacy parser accepts (month
\* names, slashes, bare digits) is outside the strings the model draws,
\* except bare digits shorter than four characters, which the validator
\* rejects with the same error whether or not they parse.
ParseDateString(s) ==
  LET dateOk == /\ Field(s, 1, 4) >= 1970
                /\ Field(s, 6, 7) \in 1..12
                /\ Field(s, 9, 10) \in 1..31
      day == DaysFromCivil(Field(s, 1, 4), Field(s, 6, 7), Field(s, 9, 10))
      hh == Field(s, 12, 13)
      mm == Field(s, 15, 16)
      ss == Field(s, 18, 19)
      frac == IF Len(s) >= 23 /\ CharAt(s, 20) = "." THEN Field(s, 21, 23)
              ELSE 0
  IN IF IsDateOnly(s)
     THEN IF dateOk THEN DateAt(day, 0) ELSE InvalidDate
     ELSE IF IsoRegexTest(s)
     THEN IF dateOk /\ hh <= 23 /\ mm <= 59 /\ ss <= 59
          THEN DateAt(day, ((hh * 60 + mm) * 60 + ss) * 1000 + frac)
          ELSE InvalidDate
     ELSE InvalidDate

\* new Date(number) for a non-negative time: NaN and the infinities give
\* Invalid Date, a fraction is truncated
NewDateFromNumber(x) ==
  IF x.s # "" \/ x.n < 0 THEN InvalidDate
  ELSE DateAt(0, x.n \div 2)

\* new Date(parseInt(value, 10)) for a digit-only string
NewDateFromDigits(s) ==
  LET t == ParseInt(s)[1]
  IN DateAt(t \div MsPerDay, t % MsPerDay)

\* s.split("-")[i] for i = 1 (second part) and 2 (third part), <<>> when the
\* split has fewer parts
RECURSIVE SplitDash(_, _)
SplitDash(s, cur) ==
  IF Len(s) = 0 THEN <<cur>>
  ELSE IF CharAt(s, 1) = "-"
  THEN <<cur>> \o SplitDash(SubSeq(s, 2, Len(s)), "")
  ELSE SplitDash(SubSeq(s, 2, Len(s)), cur \o CharAt(s, 1))

Pad(n, width) ==
  LET t == ToString(n)
  IN IF Len(t) >= width THEN t
     ELSE SubSeq("0000", 1, width - Len(t)) \o t

\* Date.prototype.toISOString for an instant of the years 1970..2099
ToISOString(bound) ==
  LET day == bound[1]
      ms == bound[2]
      y == CHOOSE k \in 1970..2099 :
             DaysBeforeYear(k) <= day /\ day < DaysBeforeYear(k + 1)
      m == CHOOSE k \in 1..12 :
             /\ DaysFromCivil(y, k, 1) <= day
             /\ (k = 12 \/ day < DaysFromCivil(y, k + 1, 1))
  IN ToString(y) \o "-" \o Pad(m, 2) \o "-"
       \o Pad(day - DaysFromCivil(y, m, 1) + 1, 2) \o "T"
       \o Pad(ms \div 3600000, 2) \o ":" \o Pad((ms \div 60000) % 60, 2)
       \o ":" \o Pad((ms \div 1000) % 60, 2) \o "." \o Pad(ms % 1000, 3)
       \o "Z"

-----------------------------------------------------------------------------
(* DateValidator *)

IsoFormatMessage == "Date must be in ISO format (YYYY-MM-DDTHH:mm:ss.sssZ)"

\* faulty variant: the iso format lets every string through to the parser
DateFormatLoose(v, value, p) ==
  CASE v.format = "iso" ->
         IF TypeOf(value) = "string" THEN <<>>
         ELSE <<createError(p, IsoFormatMessage, value)>>
    [] v.format = "timestamp" ->
         IF \/ TypeOf(value) = "number"
            \/ /\ TypeOf(value) = "string"
               /\ Len(value.s) > 0 /\ AllChars(value.s, IsDigit)
         THEN <<>>
         ELSE <<createError(p, "Date must be a valid timestamp", value)>>
    [] OTHER -> <<>>

\* the format check that runs first; <<>> when it passes
DateFormatErrors(v, value, p) ==
  CASE v.format = "iso" ->
         IF TypeOf(value) = "string" /\ IsoRegexTest(value.s) THEN <<>>
         ELSE <<createError(p, IsoFormatMessage, value)>>
    [] v.format = "timestamp" ->
         IF \/ TypeOf(value) = "number"
            \/ /\ TypeOf(value) = "string"
               /\ Len(value.s) > 0 /\ AllChars(value.s, IsDigit)
         THEN <<>>
         ELSE <<createError(p, "Date must be a valid timestamp", value)>>
    [] OTHER -> <<>>

\* the string is rejected before a Date is constructed
ClearlyInvalid(s) ==
  \/ Trim(s) = ""
  \/ s \in {"invalid", "not-a-date", "not a date", "invalid-date"}
  \/ AllChars(Trim(s), LAMBDA c : IsAlpha(c) \/ IsSpace(c))

\* the checks on the trimmed text of a string that parsed to a valid date
ImplausibleString(originalString) ==
  \/ Len(originalString) < 4
  \/ ~(\E i \in 1..Len(originalString) : IsDigit(CharAt(originalString, i)))
  \/ originalString = "Invalid Date"
  \/ LET parts == SplitDash(originalString, "")
         month == ParseInt(parts[2])
         day == ParseInt(parts[3])
     IN /\ Len(parts) >= 3
        /\ \/ (month # <<>> /\ (month[1] > 12 \/ month[1] < 1))
           \/ (day # <<>> /\ (day[1] > 31 \/ day[1] < 1))
           \/ (month = <<2>> /\ day # <<>> /\ day[1] > 29)

DateValidateValue(v, value, p) ==
  LET formatErrors == DateFormatErrors(v, value, p)
      dateValue ==
        IF value.k = "date" THEN value
        ELSE IF TypeOf(value) = "number" THEN NewDateFromNumber(value)
        ELSE IF v.format = "timestamp" THEN NewDateFromDigits(value.s)
        ELSE ParseDateString(value.s)
      e1 == IF v.min # <<>> /\ DateLess(dateValue, v.min)
            THEN <<createError(p, "Date must be after "
                     \o ToISOString(v.min), value)>>
            ELSE <<>>
      e2 == IF v.max # <<>> /\ DateGreater(dateValue, v.max)
            THEN <<createError(p, "Date must be before "
                     \o ToISOString(v.max), value)>>
            ELSE <<>>
      errors == e1 \o e2
  IN IF formatErrors # <<>> THEN createFailure(formatErrors)
     ELSE IF value.k # "date" /\ TypeOf(value) \notin {"string", "number"}
     THEN createFailure(<<createError(p,
            "Expected Date, string, or number, received " \o TypeOf(value),
            value)>>)
     ELSE IF TypeOf(value) = "string" /\ v.format = ""
             /\ ClearlyInvalid(value.s)
     THEN createFailure(<<createError(p, "Invalid date", value)>>)
     ELSE IF IsInvalidDate(dateValue)
     THEN createFailure(<<createError(p, "Invalid date", value)>>)
     ELSE IF TypeOf(value) = "string" /\ Trim(value.s) # "" /\ v.format = ""
             /\ ImplausibleString(Trim(value.s))
     THEN createFailure(<<createError(p, "Invalid date", value)>>)
     ELSE IF Len(errors) > 0 THEN createFailure(errors)
     ELSE createSuccess(dateValue)

-----------------------------------------------------------------------------
(* JSON.stringify, used for the uniqueness key of composite items *)

RECURSIVE JsonEscape(_)
JsonEscape(s) ==
  IF Len(s) = 0 THEN s
  ELSE LET c == CharAt(s, 1)
       IN (IF c = "\"" THEN "\\\"" ELSE IF c = "\\" THEN "\\\\" ELSE c)
            \o JsonEscape(SubSeq(s, 2, Len(s)))

JsonQuote(s) == "\"" \o JsonEscape(s) \o "\""

RECURSIVE JoinComma(_)
JoinComma(parts) ==
  IF parts = <<>> THEN ""
  ELSE IF Len(parts) = 1 THEN parts[1]
  ELSE parts[1] \o "," \o JoinComma(Tail(parts))

\* Date.prototype.toJSON
DateToJson(d) ==
  IF IsInvalidDate(d) THEN "null"
  ELSE JsonQuote(ToISOString(<<d.n, DateMs(d)>>))

\* x has no cycle; an undefined element of an array is written as null, an
\* undefined property of an object is left out
RECURSIVE JsonStringify(_)
JsonStringify(x) ==
  CASE x.k = "string" -> JsonQuote(x.s)
    [] x.k = "number" -> IF x.s = "" THEN NumToString(x.n) ELSE "null"
    [] x.k = "boolean" -> IF x.n = 1 THEN "true" ELSE "false"
    [] x.k = "date" -> DateToJson(x)
    [] x.k = "array" ->
         "[" \o JoinComma([i \in DOMAIN x.items |->
                             JsonStringify(x.items[i])]) \o "]"
    [] x.k = "object" ->
         LET shown == SelectSeq(x.items, LAMBDA e : e.items[1].k # "undefined")
         IN "{" \o JoinComma([i \in DOMAIN shown |->
                   JsonQuote(shown[i].s) \o ":"
                     \o JsonStringify(shown[i].items[1])]) \o "}"
    [] OTHER -> "null"

\* the key under which the uniqueness scan remembers an item: the JSON text
\* (a string) of an object-typed item, the item itself otherwise
UniqueKey(item) ==
  IF TypeOf(item) = "object" /\ item.k # "null"
  THEN Str(JsonStringify(item))
  ELSE item

-----------------------------------------------------------------------------
(* Sequences of results *)

RECURSIVE Flatten(_)
Flatten(seqs) ==
  IF seqs = <<>> THEN <<>> ELSE Head(seqs) \o Flatten(Tail(seqs))

\* faulty variant: only the first error of a failing child is kept
CollectFirstErrors(results) ==
  Flatten([i \in DOMAIN results |->
             IF results[i].isValid THEN <<>> ELSE <<results[i].errors[1]>>])

\* errors.push(...result.errors) for every failing result, in order
CollectErrors(results) ==
  Flatten([i \in DOMAIN results |->
             IF results[i].isValid THEN <<>> ELSE results[i].errors])

AnyThrew(results) == \E i \in DOMAIN results : results[i].threw

\* result.errors.map(error => ({...error, message}))
ReplaceMessages(errors, message) ==
  [i \in DOMAIN errors |-> [errors[i] EXCEPT !.message = message]]

-----------------------------------------------------------------------------
(* ArrayValidator, ObjectValidator, the Schema combinators and               *)
(* BaseValidator.validate                                                    *)

RECURSIVE validate(_, _, _)

ItemPath(p, i) == p \o "[" \o ToString(i) \o "]"

\* the items that the item loop pushes to validatedItems
ValidatedItems(itemResults) ==
  LET kept == SelectSeq(itemResults,
                LAMBDA r : r.isValid /\ r.data.k # "undefined")
  IN [i \in DOMAIN kept |-> kept[i].data]

\* the uniqueness scan over validatedItems: i is given zero-based
IsDuplicate(validatedItems, i) ==
  \E j \in 1..i :
    UniqueKey(validatedItems[j]) = UniqueKey(validatedItems[i + 1])

UniqueErrors(validatedItems, p) ==
  LET duplicates == SelectSeq([i \in DOMAIN validatedItems |-> i - 1],
                      LAMBDA i : IsDuplicate(validatedItems, i))
  IN [d \in DOMAIN duplicates |->
        createError(ItemPath(p, duplicates[d]), "Array items must be unique",
                    validatedItems[duplicates[d] + 1])]

ArrayValidateValue(v, value, p) ==
  IF ~IsArray(value)
  THEN createFailure(<<createError(p,
         "Expected array, received " \o TypeOf(value), value)>>)
  ELSE
    LET length == Len(value.items)
        e1 == IF v.minLength # <<>> /\ length < v.minLength[1]
              THEN <<createError(p, "Array must have at least "
                       \o ToString(v.minLength[1]) \o " items", value)>>
              ELSE <<>>
        e2 == IF v.maxLength # <<>> /\ length > v.maxLength[1]
              THEN <<createError(p, "Array must have at most "
                       \o ToString(v.maxLength[1]) \o " items", value)>>
              ELSE <<>>
        e3 == IF v.noEmpty /\ length = 0
              THEN <<createError(p, "Array cannot be empty", value)>>
              ELSE <<>>
        itemResults == [i \in 1..length |->
                          validate(v.kids[1], GetItem(value, i),
                                   ItemPath(p, i - 1))]
        validatedItems == ValidatedItems(itemResults)
        scanned == v.unique /\ Len(validatedItems) > 0
        e4 == IF scanned THEN UniqueErrors(validatedItems, p) ELSE <<>>
        errors == e1 \o e2 \o e3 \o CollectErrors(itemResults) \o e4
    IN IF AnyThrew(itemResults) THEN Thrown
       ELSE IF scanned /\ \E i \in DOMAIN validatedItems :
                 TypeOf(validatedItems[i]) = "object"
                 /\ HasCycle(validatedItems[i])
       THEN Thrown
       ELSE IF Len(errors) > 0 THEN createFailure(errors)
       ELSE createSuccess(Arr(validatedItems))

FieldPath(p, key) == IF p = "root" THEN key ELSE p \o "." \o key

\* the keys of the value that the schema does not declare, in the value's
\* key order
ExtraKeys(v, value) ==
  SelectSeq(ObjectKeys(value.items),
            LAMBDA key : ~(\E i \in DOMAIN v.keys : v.keys[i] = key))

\* validatedObject after the fields 1..n of the schema were handled
RECURSIVE FieldsOutput(_, _, _)
FieldsOutput(v, fieldResults, n) ==
  IF n = 0 THEN Obj(<<>>)
  ELSE LET rest == FieldsOutput(v, fieldResults, n - 1)
           r == fieldResults[n]
       IN IF r.isValid /\ r.data.k # "undefined"
          THEN SetProp(rest, v.keys[n], r.data)
          ELSE rest

\* faulty variant: the undeclared keys are dropped from the output
CopyNoExtra(out, value, extra, n) == out

\* validatedObject after the first n extra keys were copied
RECURSIVE CopyExtra(_, _, _, _)
CopyExtra(out, value, extra, n) ==
  IF n = 0 THEN out
  ELSE SetProp(CopyExtra(out, value, extra, n - 1), extra[n],
               GetProp(value, extra[n]))

ObjectValidateValue(v, value, p) ==
  IF value.k = "null"
  THEN IF v.allowNull THEN createSuccess(Null)
       ELSE createFailure(<<createError(p, "Object cannot be null", value)>>)
  ELSE IF TypeOf(value) # "object" \/ IsArray(value)
  THEN createFailure(<<createError(p,
         "Expected object, received "
           \o (IF IsArray(value) THEN "array" ELSE TypeOf(value)), value)>>)
  ELSE
    LET fieldResults == [i \in DOMAIN v.keys |->
                           validate(v.kids[i], GetProp(value, v.keys[i]),
                                    FieldPath(p, v.keys[i]))]
        extra == ExtraKeys(v, value)
        unexpected == [i \in DOMAIN extra |->
                         createError(FieldPath(p, extra[i]),
                           "Unexpected property \"" \o extra[i] \o "\"",
                           GetProp(value, extra[i]))]
        errors == CollectErrors(fieldResults)
                    \o (IF v.strict THEN unexpected ELSE <<>>)
        fields == FieldsOutput(v, fieldResults, Len(v.keys))
        validatedObject == IF v.strict THEN fields
                           ELSE CopyExtra(fields, value, extra, Len(extra))
    IN IF AnyThrew(fieldResults) THEN Thrown
       ELSE IF Len(errors) > 0 THEN createFailure(errors)
       ELSE createSuccess(validatedObject)

\* the concrete class's validateValue
validateValue(v, value, p) ==
  CASE v.fam = "string" -> StringValidateValue(v, value, p)
    [] v.fam = "number" -> NumberValidateValue(v, value, p)
    [] v.fam = "boolean" -> BooleanValidateValue(v, value, p)
    [] v.fam = "date" -> DateValidateValue(v, value, p)
    [] v.fam = "array" -> ArrayValidateValue(v, value, p)
    [] v.fam = "object" -> ObjectValidateValue(v, value, p)

\* BaseValidator.validate
BaseValidate(v, value, p) ==
  IF v.optional /\ value.k \in {"undefined", "null"}
  THEN createSuccess(Undef)
  ELSE LET r == validateValue(v, value, p)
       IN IF ~r.threw /\ ~r.isValid /\ v.message # <<>> /\ v.message[1] # ""
          THEN [r EXCEPT !.errors = ReplaceMessages(r.errors, v.message[1])]
          ELSE r

UnionMessage == "Value does not match any of the union types"

\* faulty variant: the loop keeps going after a member accepted: the last member
\* that accepts wins
RECURSIVE UnionFromLast(_, _, _, _)
UnionFromLast(members, i, value, p) ==
  IF i > Len(members)
  THEN createFailure(<<createError(p, UnionMessage, value)>>)
  ELSE LET r == validate(members[i], value, p)
           later == UnionFromLast(members, i + 1, value, p)
       IN IF r.threw THEN r
          ELSE IF later.threw \/ later.isValid THEN later
          ELSE IF r.isValid THEN r
          ELSE later

\* the loop of Schema.union: the result of the first member that accepts
\* (or throws), the synthetic failure when the members are exhausted
RECURSIVE UnionFrom(_, _, _, _)
UnionFrom(members, i, value, p) ==
  IF i > Len(members)
  THEN createFailure(<<createError(p, UnionMessage, value)>>)
  ELSE LET r == validate(members[i], value, p)
       IN IF r.threw \/ r.isValid THEN r
          ELSE UnionFrom(members, i + 1, value, p)

\* Schema.union(validators).validate, and the validate that withMessage
\* wraps around it
UnionValidate(v, value, p) ==
  LET r == UnionFrom(v.kids, 1, value, p)
  IN IF v.message # <<>> /\ ~r.threw /\ ~r.isValid
     THEN [r EXCEPT !.errors = ReplaceMessages(r.errors, v.message[1])]
     ELSE r

\* faulty variant: only null is a sentinel, undefined goes to the validator
NullableOnlyNull(v, value, p) ==
  IF value.k = "null" THEN createSuccess(Null)
  ELSE validate(v.kids[1], value, p)

\* Schema.nullable(validator).validate
NullableValidate(v, value, p) ==
  IF value.k \in {"null", "undefined"} THEN createSuccess(Null)
  ELSE validate(v.kids[1], value, p)

\* Schema.any().validate
AnyValidate(v, value, p) == createSuccess(value)

validate(v, value, p) ==
  CASE v.fam = "any" -> AnyValidate(v, value, p)
    [] v.fam = "nullable" -> NullableValidate(v, value, p)
    [] v.fam = "union" -> UnionValidate(v, value, p)
    [] OTHER -> BaseValidate(v, value, p)

-----------------------------------------------------------------------------
(* Builder methods: each returns the configuration of a new instance *)

RECURSIVE withMessage(_, _)

\* optional(): the classes set the flag; the combinators return a fresh
\* combinator over the same validators
optional(v) ==
  CASE v.fam = "any" -> SchemaAny
    [] v.fam = "nullable" -> SchemaNullable(v.kids[1])
    [] v.fam = "union" -> SchemaUnion(v.kids)
    [] OTHER -> [v EXCEPT !.optional = TRUE]

\* withMessage(message)
withMessage(v, message) ==
  CASE v.fam = "any" -> SchemaAny
    [] v.fam = "nullable" -> SchemaNullable(withMessage(v.kids[1], message))
    [] v.fam = "union" -> [SchemaUnion(v.kids) EXCEPT !.message = <<message>>]
    [] OTHER -> [v EXCEPT !.message = <<message>>]

\* StringValidator and ArrayValidator
minLength(v, n) == [v EXCEPT !.minLength = <<n>>]
maxLength(v, n) == [v EXCEPT !.maxLength = <<n>>]
length(v, lo, hi) == [v EXCEPT !.minLength = <<lo>>, !.maxLength = <<hi>>]
\* StringValidator
pattern(v, re) == [v EXCEPT !.pattern = re]
trim(v) == [v EXCEPT !.trim = TRUE]
email(v) == [v EXCEPT !.email = TRUE]
url(v) == [v EXCEPT !.url = TRUE]
uuid(v) == [v EXCEPT !.uuid = TRUE]
\* NumberValidator (twice the bound) and DateValidator (<<day, ms>>)
min(v, bound) == [v EXCEPT !.min = bound]
max(v, bound) == [v EXCEPT !.max = bound]
range(v, lo, hi) == [v EXCEPT !.min = lo, !.max = hi]
\* NumberValidator
integer(v) == [v EXCEPT !.integer = TRUE]
positive(v) == [v EXCEPT !.positive = TRUE]
negative(v) == [v EXCEPT !.negative = TRUE]
finite(v) == [v EXCEPT !.finite = TRUE]
multipleOf(v, divisor) == [v EXCEPT !.multipleOf = <<divisor>>]
\* BooleanValidator and ObjectValidator
strict(v) == [v EXCEPT !.strict = TRUE]
\* BooleanValidator
truthy(v) == [v EXCEPT !.truthy = TRUE]
\* faulty variant: past() constrains the lower end
pastAsMin(v, t) == [v EXCEPT !.min = t]

\* DateValidator; t is the value of new Date() when the method runs
past(v, t) == [v EXCEPT !.max = t]
future(v, t) == [v EXCEPT !.min = t]
iso(v) == [v EXCEPT !.format = "iso"]
timestamp(v) == [v EXCEPT !.format = "timestamp"]
\* ArrayValidator
unique(v) == [v EXCEPT !.unique = TRUE]
noEmpty(v) == [v EXCEPT !.noEmpty = TRUE]
\* ObjectValidator
allowNull(v) == [v EXCEPT !.allowNull = TRUE]

partial(v) ==
  [v EXCEPT !.kids = [i \in DOMAIN v.kids |-> optional(v.kids[i])],
            !.partial = TRUE]

InSeq(seq, e) == \E i \in DOMAIN seq : seq[i] = e
IndexOf(seq, e) == CHOOSE i \in DOMAIN seq : seq[i] = e

\* the first occurrences of the elements of seq, in order
RECURSIVE Dedup(_)
Dedup(seq) ==
  IF seq = <<>> THEN <<>>
  ELSE LET front == Dedup(SubSeq(seq, 1, Len(seq) - 1))
           last == seq[Len(seq)]
       IN IF InSeq(front, last) THEN front ELSE Append(front, last)

\* pick(keys): the listed keys that the schema declares, in the order listed
\* (`this.schema[key]` is a plain property read, so a key that names a member
\* of Object.prototype would be found too; the signature keys: K[] with
\* K extends keyof T leaves such names out, and so do the key lists here)
pick(v, keys) ==
  LET picked == Dedup(SelectSeq(keys, LAMBDA key : InSeq(v.keys, key)))
  IN [v EXCEPT !.keys = picked,
               !.kids = [i \in DOMAIN picked |->
                           v.kids[IndexOf(v.keys, picked[i])]]]

\* omit(keys): the schema's keys that are not listed, in schema order
omit(v, keys) ==
  LET idx == SelectSeq([i \in DOMAIN v.keys |-> i],
                       LAMBDA i : ~InSeq(keys, v.keys[i]))
  IN [v EXCEPT !.keys = [i \in DOMAIN idx |-> v.keys[idx[i]]],
               !.kids = [i \in DOMAIN idx |-> v.kids[idx[i]]]]

\* faulty variant: on a key collision the receiver's validator stays
extendKeepOld(v, extKeys, extKids) ==
  LET added == SelectSeq(extKeys, LAMBDA key : ~InSeq(v.keys, key))
      keys == v.keys \o added
  IN [v EXCEPT !.keys = keys,
               !.kids = [i \in DOMAIN keys |->
                           IF InSeq(v.keys, keys[i])
                           THEN v.kids[IndexOf(v.keys, keys[i])]
                           ELSE extKids[IndexOf(extKeys, keys[i])]]]

\* extend(extension): {...this.schema, ...extension}
extend(v, extKeys, extKids) ==
  LET added == SelectSeq(extKeys, LAMBDA key : ~InSeq(v.keys, key))
      keys == v.keys \o added
  IN [v EXCEPT !.keys = keys,
               !.kids = [i \in DOMAIN keys |->
                           IF InSeq(extKeys, keys[i])
                           THEN extKids[IndexOf(extKeys, keys[i])]
                           ELSE v.kids[IndexOf(v.keys, keys[i])]]]

-----------------------------------------------------------------------------
(* The client program: instances on the heap, builder calls that allocate a  *)
(* new instance from a receiver, validate calls                              *)

MaxHeap == 2

Messages == {"", "custom"}
Paths == {"root", "user"}

\* faulty variant: the builder writes the new options into the receiver and
\* returns it
MutateReceiver(h, i, v) == [h EXCEPT ![i] = v]

\* new XValidator(...): the call allocates an instance and leaves the
\* receiver heap[i] as it is
NewInstance(h, i, v) == Append(h, v)

Made(op, from, arg) == [op |-> op, from |-> from, arg |-> arg]

\* a builder method op called on the instance heap[i] returns the instance v
Build(i, op, arg, v) ==
  /\ Len(heap) < MaxHeap
  /\ heap' = NewInstance(heap, i, v)
  /\ made' = Append(made, Made(op, i, arg))
  /\ UNCHANGED <<target, input, path, result, lastIndex, now, stack, game>>

CallOptional ==
  \E i \in DOMAIN heap : Build(i, "optional", "", optional(heap[i]))

CallWithMessage ==
  \E i \in DOMAIN heap : \E m \in Messages :
    Build(i, "withMessage", m, withMessage(heap[i], m))

\* heap[i].validate(input, path)
Validate(i) ==
  /\ target' = i
  /\ result' = validate(heap[i], input, path)
  /\ lastIndex' = LastIndexAfter(heap[i], input)
  /\ UNCHANGED <<heap, made, input, path, now, stack, game>>

\* the client holds the one instance v, built by the Schema factory and
\* builder calls, and the value x it is going to validate at path p
Start(v, x, p) ==
  /\ heap = <<v>>
  /\ made = <<Made("Schema", 0, "")>>
  /\ target = 0
  /\ input = x
  /\ path = p
  /\ result = NoResult
  /\ lastIndex = 0
  /\ now = 0
  /\ stack = <<>>
  /\ game = NoGame

Called == target # 0
Returned == Called /\ ~result.threw
Absent(x) == x.k \in {"undefined", "null"}

-----------------------------------------------------------------------------
(* Validators of every family, scalar inputs and small composite inputs *)

Leaves ==
  { SchemaString, minLength(SchemaString, 2), trim(maxLength(SchemaString, 1)),
    pattern(SchemaString, "^[0-9]+$"),
    SchemaNumber, integer(min(SchemaNumber, <<2>>)),
    SchemaBoolean, strict(SchemaBoolean), truthy(SchemaBoolean),
    SchemaDate, iso(SchemaDate), max(timestamp(SchemaDate), <<0, 5>>),
    SchemaAny }

Items == {SchemaString, minLength(SchemaString, 2), SchemaAny}

Composites ==
  {SchemaArray(l) : l \in Items}
    \cup {noEmpty(unique(SchemaArray(SchemaNumber)))}
    \cup {SchemaObject(<<"a">>, <<l>>) : l \in Items}
    \cup {strict(SchemaObject(<<"a", "b">>,
                              <<SchemaNumber, optional(SchemaString)>>)),
          allowNull(SchemaObject(<<>>, <<>>))}
    \cup {SchemaNullable(l) : l \in Items}
    \cup {SchemaNullable(optional(SchemaNumber)),
          SchemaNullable(withMessage(minLength(SchemaString, 2), "custom"))}
    \cup {SchemaUnion(<<>>),
          SchemaUnion(<<minLength(SchemaString, 2), SchemaNumber>>),
          SchemaUnion(<<trim(SchemaString), SchemaString>>),
          SchemaUnion(<<SchemaArray(SchemaString), SchemaNullable(SchemaDate)>>)}

Validators == Leaves \cup Composites

Scalars ==
  { Undef, Null, Str(""), Str("a"), Str(" a "), Str("ab"), Str("12"),
    Str("yes"), Str("1970-01-02"), Str("2023-02-30"),
    Str("1970-01-01T00:00:00Z"),
    Num(0), Num(1), Half(1), NaN, Infinity,
    Bool(TRUE), Bool(FALSE), DateAt(0, 7), InvalidDate }

SmallComposites ==
  { Arr(<<>>), Arr(<<Str("a")>>), Arr(<<Num(1), Str("a"), Num(1)>>),
    Obj(<<>>), Obj(<<Entry("a", Str("ab"))>>),
    Obj(<<Entry("a", Num(1)), Entry("c", Null)>>) }

Inputs == Scalars \cup SmallComposites

Init == \E v \in Validators : \E x \in Inputs : \E p \in Paths : Start(v, x, p)

CallValidate == \E i \in DOMAIN heap : Validate(i)

Next == CallOptional \/ CallWithMessage \/ CallValidate

Spec == Init /\ [][Next]_vars

-----------------------------------------------------------------------------
(* Properties checked under Spec *)

Contains(s, sub) ==
  \E i \in 1..(Len(s) - Len(sub) + 1) : SubSeq(s, i, i + Len(sub) - 1) = sub

\* the instance validate was called on, and the receiver of the builder call
\* that created it
Callee == heap[target]
Receiver == heap[made[target].from]

\* C1: whatever validate returns, isValid is true exactly when errors is
\* empty, and a failing result carries no data.
C1_ResultWellFormed ==
  Returned =>
    /\ result.isValid <=> result.errors = <<>>
    /\ ~result.isValid => result.data = Undef

\* C1 witness: an instance made by a builder call rejected the input with
\* two or more errors.
C1_Witness ==
  /\ Returned /\ made[target].op # "Schema"
  /\ ~result.isValid /\ Len(result.errors) >= 2

\* C2: v.optional() accepts unset and explicit null with no data and no
\* errors, and handles every other input exactly as v does.
C2_OptionalContract ==
  (Returned /\ made[target].op = "optional") =>
    IF Absent(input) THEN result = createSuccess(Undef)
    ELSE result = validate(Receiver, input, path)

\* C3: v.withMessage(m) rejects what v rejects, with as many errors at the
\* same paths and values, each with message m, and returns v's result when v
\* accepts.
C3_WithMessageContract ==
  (Returned /\ made[target].op = "withMessage") =>
    LET r0 == validate(Receiver, input, path)
    IN IF r0.isValid THEN result = r0
       ELSE /\ ~result.isValid
            /\ Len(result.errors) = Len(r0.errors)
            /\ \A k \in DOMAIN result.errors :
                 /\ result.errors[k].path = r0.errors[k].path
                 /\ result.errors[k].value = r0.errors[k].value
                 /\ result.errors[k].message = made[target].arg

\* the members of the union that accept the input
Accepting(v) ==
  {i \in DOMAIN v.kids : validate(v.kids[i], input, path).isValid}
FirstOf(S) == CHOOSE i \in S : \A j \in S : i <= j

C11_NullableDelegates ==
  (Returned /\ Callee.fam = "nullable") =>
    IF Absent(input) THEN result = createSuccess(Null)
    ELSE result = validate(Callee.kids[1], input, path)

\* C11 witness: the wrapped validator carries a message of its own and
\* rejected the input with it.
C11_Witness ==
  /\ Returned /\ Callee.fam = "nullable" /\ made[target].op = "Schema"
  /\ Callee.kids[1].message = <<"custom">>
  /\ ~result.isValid /\ result.errors[1].message = "custom"

\* C11 witness: the wrapped validator is optional and the input is unset.
C11_WitnessOptional ==
  /\ Returned /\ Callee.fam = "nullable" /\ Callee.kids[1].optional
  /\ input = Undef /\ result.data = Null

\* the kind of a value, and the kinds a scalar family is about
Kind(x) == IF x.k = "date" THEN "date" ELSE TypeOf(x)
ScalarFamilies == {"string", "number", "boolean", "date"}
FamilyKinds(fam) ==
  CASE fam = "string" -> {"string"}
    [] fam = "number" -> {"number"}
    [] fam = "boolean" -> {"boolean", "string", "number"}
    [] fam = "date" -> {"date", "string", "number"}

\* the kinds that the validator v admits: a boolean validator admits only
\* booleans in strict mode and every value in truthy mode
AdmittedKinds(v) ==
  IF v.fam = "boolean" /\ v.strict THEN {"boolean"}
  ELSE IF v.fam = "boolean" /\ v.truthy
  THEN {"boolean", "string", "number", "date", "object", "undefined"}
  ELSE FamilyKinds(v.fam)

OneErrorAtPath ==
  /\ ~result.isValid
  /\ Len(result.errors) = 1
  /\ result.errors[1].path = path

NullRejected ==
  /\ ~result.isValid
  /\ Len(result.errors) = 1
  /\ result.errors[1].path = path
  /\ result.errors[1].value = Null
  /\ (Callee.message = <<>> => result.errors[1].message = "Object cannot be null")

\* C24: an object validator with allowNull accepts undefined and null as
\* success with null data and no errors and treats every other value as the
\* same validator without allowNull does; without allowNull (and without
\* optional) null is rejected with one cannot-be-null error at the call path.
C24_AllowNull ==
  (Returned /\ Callee.fam = "object") =>
    /\ (Callee.allowNull /\ Absent(input)) => result = createSuccess(Null)
    /\ (Callee.allowNull /\ ~Absent(input)) =>
         result = validate([Callee EXCEPT !.allowNull = FALSE], input, path)
    /\ (~Callee.allowNull /\ ~Callee.optional /\ input = Null) => NullRejected

\* the same, with only the explicit null accepted and optional() set apart
C24_AllowNullOnNull ==
  (Returned /\ Callee.fam = "object") =>
    /\ (Callee.allowNull /\ ~Callee.optional /\ input = Null) =>
         result = createSuccess(Null)
    /\ (Callee.allowNull /\ ~Absent(input)) =>
         result = validate([Callee EXCEPT !.allowNull = FALSE], input, path)
    /\ (~Callee.allowNull /\ ~Callee.optional /\ input = Null) => NullRejected

C24_ReachedUndefined ==
  /\ Returned /\ Callee.fam = "object" /\ Callee.allowNull
  /\ ~Callee.optional /\ input = Undef
  /\ ~result.isValid

-----------------------------------------------------------------------------
(* Every builder method as a call of the client *)

Fam(i, fams) == heap[i].fam \in fams

CallMinLength ==
  \E i \in DOMAIN heap : Fam(i, {"string", "array"}) /\
    Build(i, "minLength", "", minLength(heap[i], 2))
CallMaxLength ==
  \E i \in DOMAIN heap : Fam(i, {"string", "array"}) /\
    Build(i, "maxLength", "", maxLength(heap[i], 1))
CallLength ==
  \E i \in DOMAIN heap : Fam(i, {"string", "array"}) /\
    Build(i, "length", "", length(heap[i], 1, 2))
CallPattern ==
  \E i \in DOMAIN heap : Fam(i, {"string"}) /\
    Build(i, "pattern", "", pattern(heap[i], "^[a-z]+$"))
CallTrim ==
  \E i \in DOMAIN heap : Fam(i, {"string"}) /\ Build(i, "trim", "", trim(heap[i]))
CallEmail ==
  \E i \in DOMAIN heap : Fam(i, {"string"}) /\ Build(i, "email", "", email(heap[i]))
CallUrl ==
  \E i \in DOMAIN heap : Fam(i, {"string"}) /\ Build(i, "url", "", url(heap[i]))
CallUuid ==
  \E i \in DOMAIN heap : Fam(i, {"string"}) /\ Build(i, "uuid", "", uuid(heap[i]))
CallMin ==
  \E i \in DOMAIN heap :
    \/ Fam(i, {"number"}) /\ Build(i, "min", "", min(heap[i], <<2>>))
    \/ Fam(i, {"date"}) /\ Build(i, "min", "", min(heap[i], <<0, 7>>))
CallMax ==
  \E i \in DOMAIN heap :
    \/ Fam(i, {"number"}) /\ Build(i, "max", "", max(heap[i], <<0>>))
    \/ Fam(i, {"date"}) /\ Build(i, "max", "", max(heap[i], <<0, 5>>))
CallRange ==
  \E i \in DOMAIN heap :
    \/ Fam(i, {"number"}) /\ Build(i, "range", "", range(heap[i], <<2>>, <<4>>))
    \/ Fam(i, {"date"})
         /\ Build(i, "range", "", range(heap[i], <<0, 5>>, <<1, 0>>))
CallInteger ==
  \E i \in DOMAIN heap : Fam(i, {"number"}) /\
    Build(i, "integer", "", integer(heap[i]))
CallPositive ==
  \E i \in DOMAIN heap : Fam(i, {"number"}) /\
    Build(i, "positive", "", positive(heap[i]))
CallNegative ==
  \E i \in DOMAIN heap : Fam(i, {"number"}) /\
    Build(i, "negative", "", negative(heap[i]))
CallFinite ==
  \E i \in DOMAIN heap : Fam(i, {"number"}) /\
    Build(i, "finite", "", finite(heap[i]))
CallMultipleOf ==
  \E i \in DOMAIN heap : Fam(i, {"number"}) /\
    Build(i, "multipleOf", "", multipleOf(heap[i], 4))
CallStrict ==
  \E i \in DOMAIN heap : Fam(i, {"boolean", "object"}) /\
    Build(i, "strict", "", strict(heap[i]))
CallTruthy ==
  \E i \in DOMAIN heap : Fam(i, {"boolean"}) /\
    Build(i, "truthy", "", truthy(heap[i]))
CallIso ==
  \E i \in DOMAIN heap : Fam(i, {"date"}) /\ Build(i, "iso", "", iso(heap[i]))
CallTimestamp ==
  \E i \in DOMAIN heap : Fam(i, {"date"}) /\
    Build(i, "timestamp", "", timestamp(heap[i]))
CallUnique ==
  \E i \in DOMAIN heap : Fam(i, {"array"}) /\
    Build(i, "unique", "", unique(heap[i]))
CallNoEmpty ==
  \E i \in DOMAIN heap : Fam(i, {"array"}) /\
    Build(i, "noEmpty", "", noEmpty(heap[i]))
CallAllowNull ==
  \E i \in DOMAIN heap : Fam(i, {"object"}) /\
    Build(i, "allowNull", "", allowNull(heap[i]))
CallPartial ==
  \E i \in DOMAIN heap : Fam(i, {"object"}) /\
    Build(i, "partial", "", partial(heap[i]))
CallPick ==
  \E i \in DOMAIN heap : Fam(i, {"object"}) /\
    Build(i, "pick", "", pick(heap[i], <<"b">>))
CallOmit ==
  \E i \in DOMAIN heap : Fam(i, {"object"}) /\
    Build(i, "omit", "", omit(heap[i], <<"b">>))
CallExtend ==
  \E i \in DOMAIN heap : Fam(i, {"object"}) /\
    Build(i, "extend", "",
          extend(heap[i], <<"c", "a">>, <<SchemaBoolean, SchemaNumber>>))

\* one plain validator of each family
Plain ==
  { SchemaString, SchemaNumber, SchemaBoolean, SchemaDate,
    SchemaArray(SchemaString),
    SchemaObject(<<"a", "b">>, <<SchemaString, SchemaNumber>>),
    SchemaAny, SchemaNullable(SchemaString),
    SchemaUnion(<<SchemaString, SchemaNumber>>) }

BuildInputs ==
  { Undef, Null, Str(" a "), Str("ab"), Str("12"), Num(1), Half(1),
    Bool(TRUE), DateAt(0, 7), Arr(<<Num(1), Str("a"), Num(1)>>),
    Obj(<<>>), Obj(<<Entry("a", Num(1)), Entry("c", Null)>>) }

InitBuild ==
  \E v \in Plain : \E x \in BuildInputs : \E p \in Paths : Start(v, x, p)

NextBuild ==
  \/ CallOptional \/ CallWithMessage
  \/ CallMinLength \/ CallMaxLength \/ CallLength \/ CallPattern \/ CallTrim
  \/ CallEmail \/ CallUrl \/ CallUuid
  \/ CallMin \/ CallMax \/ CallRange \/ CallInteger \/ CallPositive
  \/ CallNegative \/ CallFinite \/ CallMultipleOf
  \/ CallStrict \/ CallTruthy \/ CallIso \/ CallTimestamp
  \/ CallUnique \/ CallNoEmpty
  \/ CallAllowNull \/ CallPartial \/ CallPick \/ CallOmit \/ CallExtend
  \/ CallValidate

SpecBuild == InitBuild /\ [][NextBuild]_vars

\* C4: a builder call returns a new instance and changes no instance that
\* exists: every instance keeps its configuration, and validate on it
\* returns what it returned before the call.
C4_Immutable ==
  [][ /\ \A i \in DOMAIN heap :
           /\ i \in DOMAIN heap'
           /\ heap'[i] = heap[i]
           /\ validate(heap'[i], input, path) = validate(heap[i], input, path)
      /\ heap' # heap => Len(heap') = Len(heap) + 1 ]_vars

\* C4 witness: validate was called on an instance after a builder call on it
\* had returned an instance that treats the input differently.
C4_Witness ==
  /\ Returned
  /\ \E k \in DOMAIN heap :
       /\ made[k].from = target
       /\ made[k].op \notin {"optional", "withMessage"}
       /\ validate(heap[k], input, path) # result

-----------------------------------------------------------------------------
(* Array and object validators on array and object inputs *)

MaxItems == 3

ObjA1 == Obj(<<Entry("a", Num(1))>>)
\* an object with a property that refers to the object itself
CycObj == Obj(<<Entry("a", Num(1)), Entry("self", Cycle)>>)

ItemValues == {Undef, Num(1), Half(1), Str("ab"), ObjA1, CycObj}

\* the sequences over S of length n, of length at most n
RECURSIVE SeqsOfLen(_, _)
SeqsOfLen(S, n) ==
  IF n = 0 THEN {<<>>}
  ELSE {Append(q, e) : q \in SeqsOfLen(S, n - 1), e \in S}
SeqsUpTo(S, n) == UNION {SeqsOfLen(S, k) : k \in 0..n}

ArrayInputs == {Arr(q) : q \in SeqsUpTo(ItemValues, MaxItems)}

\* objects with the properties x, b, a, y in this insertion order, each one
\* present or not
PropValues(key) ==
  CASE key = "a" -> {Str("ab"), Str("a"), Arr(<<Str("a"), Num(1)>>)}
    [] key = "b" -> {Num(1), Half(1), Undef}
    [] key = "x" -> {Null, Cycle, Obj(<<Entry("a", Num(1))>>)}
    [] key = "y" -> {Num(0)}

Props(key) == {<<>>} \cup {<<Entry(key, v)>> : v \in PropValues(key)}

ObjectInputs ==
  {Obj(x \o b \o a \o y) :
     x \in Props("x"), b \in Props("b"), a \in Props("a"), y \in Props("y")}

Arrays ==
  { SchemaArray(SchemaNumber),
    SchemaArray(optional(SchemaString)),
    length(SchemaArray(minLength(SchemaString, 3)), 1, 2),
    noEmpty(SchemaArray(SchemaAny)),
    SchemaArray(SchemaObject(<<"a">>, <<SchemaNumber>>)),
    noEmpty(SchemaArray(SchemaNullable(SchemaNumber))),
    SchemaArray(integer(min(SchemaNumber, <<2>>))) }

Objects ==
  { SchemaObject(<<"a", "b">>, <<minLength(SchemaString, 2), SchemaNumber>>),
    SchemaObject(<<"b", "a">>,
                 <<integer(min(SchemaNumber, <<4>>)), SchemaString>>),
    SchemaObject(<<"a", "b", "x">>,
                 <<SchemaNullable(SchemaString),
                   SchemaUnion(<<SchemaString, SchemaNumber>>), SchemaAny>>),
    SchemaObject(<<"a", "x">>,
                 <<SchemaArray(SchemaNumber),
                   SchemaObject(<<"a">>, <<SchemaString>>)>>),
    SchemaObject(<<"a">>, <<optional(SchemaString)>>) }

InitComposite ==
  \E p \in Paths :
    \/ \E v \in Arrays : \E x \in ArrayInputs : Start(v, x, p)
    \/ \E v \in Objects : \E x \in ObjectInputs : Start(v, x, p)

NextComposite == CallUnique \/ CallStrict \/ CallPartial \/ CallValidate

SpecComposite == InitComposite /\ [][NextComposite]_vars

-----------------------------------------------------------------------------
(* Properties checked under SpecComposite *)

\* an array validator was given an array, an object validator an object
CompositeCall ==
  /\ Called
  /\ \/ Callee.fam = "array" /\ input.k = "array"
     \/ Callee.fam = "object" /\ input.k = "object"

\* the results of the children: the item validator on every item in index
\* order, the field validators on their properties in declaration order
ChildResults ==
  IF Callee.fam = "array"
  THEN [i \in DOMAIN input.items |->
          validate(Callee.kids[1], GetItem(input, i), ItemPath(path, i - 1))]
  ELSE [i \in DOMAIN Callee.keys |->
          validate(Callee.kids[i], GetProp(input, Callee.keys[i]),
                   FieldPath(path, Callee.keys[i]))]

RECURSIVE ErrorsOf(_)
ErrorsOf(results) ==
  IF results = <<>> THEN <<>>
  ELSE Head(results).errors \o ErrorsOf(Tail(results))

IsLengthError(e) ==
  e.path = path /\ e.value = input
    /\ (Contains(e.message, "Array must have at")
          \/ Contains(e.message, "Array cannot be empty"))
IsUniqueError(e) == Contains(e.message, "Array items must be unique")
IsUnexpectedError(e) == Contains(e.message, "nexpected property")
IsOwnError(e) ==
  IF Callee.fam = "array" THEN IsLengthError(e) \/ IsUniqueError(e)
  ELSE IsUnexpectedError(e)

\* the number of length, emptiness and unexpected-property rules the input
\* violates
OwnViolations ==
  IF Callee.fam = "array"
  THEN (IF Callee.minLength # <<>> /\ Len(input.items) < Callee.minLength[1]
        THEN 1 ELSE 0)
       + (IF Callee.maxLength # <<>> /\ Len(input.items) > Callee.maxLength[1]
          THEN 1 ELSE 0)
       + (IF Callee.noEmpty /\ input.items = <<>> THEN 1 ELSE 0)
  ELSE IF Callee.strict THEN Len(ExtraKeys(Callee, input)) ELSE 0

\* C5: validate returns a result, whatever the input: it never throws.
C5_NeverThrows == Called => ~result.threw

\* C6: the errors of an array or object validator are all the errors of its
\* children, child after child in index or declaration order and each child's
\* errors in the child's order, as one uninterrupted run, and around that run
\* only the validator's own violations, one per violated rule.
C6_PropagationLossless ==
  (Returned /\ CompositeCall) =>
    LET ce == ErrorsOf(ChildResults)
        n == Len(ce)
        m == Len(result.errors)
    IN /\ m >= n
       /\ \E k \in 0..(m - n) :
            /\ SubSeq(result.errors, k + 1, k + n) = ce
            /\ \A j \in (1..k) \cup ((k + n + 1)..m) :
                 IsOwnError(result.errors[j])
            /\ Cardinality({j \in (1..k) \cup ((k + n + 1)..m) :
                              ~IsUniqueError(result.errors[j])}) = OwnViolations

\* C6 witness: two children failed, one of them with two errors, and the
\* validator added a violation of its own.
C6_Witness ==
  /\ Returned /\ CompositeCall
  /\ Cardinality({i \in DOMAIN ChildResults : ~ChildResults[i].isValid}) >= 2
  /\ \E i \in DOMAIN ChildResults : Len(ChildResults[i].errors) >= 2
  /\ Len(result.errors) > Len(ErrorsOf(ChildResults))

\* the uniqueness key of the input item i: of its accepted data when the
\* item validator accepted it with data, of the item itself otherwise
ItemKey(i) ==
  LET r == ChildResults[i]
  IN IF r.isValid /\ r.data.k # "undefined" THEN UniqueKey(r.data)
     ELSE UniqueKey(GetItem(input, i))

\* the input indices (zero-based) whose item repeats the key of an earlier
\* item
Repeats == {i - 1 : i \in {j \in DOMAIN input.items :
                             \E h \in 1..(j - 1) : ItemKey(h) = ItemKey(j)}}

\* C7: under unique() the uniqueness errors are exactly one at <path>[i] for
\* every input index i whose item repeats the key of an earlier item.
C7_UniqueIndices ==
  (Returned /\ CompositeCall /\ Callee.fam = "array" /\ Callee.unique) =>
    LET flagged == SelectSeq(result.errors, IsUniqueError)
    IN /\ {flagged[j].path : j \in DOMAIN flagged}
            = {ItemPath(path, i) : i \in Repeats}
       /\ Len(flagged) = Cardinality(Repeats)

\* the errors of the result that name the property key as unexpected
UnexpectedAt(key) ==
  {j \in DOMAIN result.errors :
     /\ IsUnexpectedError(result.errors[j])
     /\ result.errors[j].path = FieldPath(path, key)}

\* C9: a strict object validator reports one unexpected-property error at the
\* path of every undeclared input key, after all field errors, and rejects the
\* object; a non-strict one reports none and copies every undeclared key and
\* its value to the output.
C9_ExtraKeys ==
  (Returned /\ CompositeCall /\ Callee.fam = "object") =>
    LET extra == ExtraKeys(Callee, input)
        fieldErrors == {j \in DOMAIN result.errors :
                          ~IsUnexpectedError(result.errors[j])}
    IN IF Callee.strict
       THEN /\ \A i \in DOMAIN extra :
                 /\ Cardinality(UnexpectedAt(extra[i])) = 1
                 /\ \A j \in UnexpectedAt(extra[i]) :
                      \A f \in fieldErrors : f < j
            /\ extra # <<>> => ~result.isValid
       ELSE /\ \A j \in DOMAIN result.errors :
                 ~IsUnexpectedError(result.errors[j])
            /\ result.isValid =>
                 \A i \in DOMAIN extra :
                   /\ HasKey(result.data, extra[i])
                   /\ GetProp(result.data, extra[i]) = GetProp(input, extra[i])

\* C9 witness: a strict validator met two undeclared keys in an object that
\* also has a failing field.
C9_Witness ==
  /\ Returned /\ CompositeCall /\ Callee.fam = "object" /\ Callee.strict
  /\ Len(ExtraKeys(Callee, input)) >= 2
  /\ \E j \in DOMAIN result.errors : ~IsUnexpectedError(result.errors[j])
  /\ path = "user"

\* C10: schema.partial() accepts the empty object with empty output, and
\* validates every supplied field as schema does.
C10_PartialContract ==
  (Returned /\ CompositeCall /\ made[target].op = "partial") =>
    /\ input = Obj(<<>>) => result = createSuccess(Obj(<<>>))
    /\ \A i \in DOMAIN Callee.keys :
         LET x == GetProp(input, Callee.keys[i])
             p == FieldPath(path, Callee.keys[i])
         IN ~Absent(x) =>
              validate(Callee.kids[i], x, p) = validate(Receiver.kids[i], x, p)

\* a validator tree with required fields and items only, none of which
\* normalizes its input: no optional(), no trim, no boolean coercion, no
\* date parsing, no nullable
RECURSIVE NonTransforming(_)
NonTransforming(v) ==
  CASE v.fam = "string" -> ~v.optional /\ ~v.trim
    [] v.fam = "number" -> ~v.optional
    [] v.fam = "boolean" -> ~v.optional /\ v.strict
    [] v.fam \in {"array", "object", "union"} ->
         ~v.optional /\ \A i \in DOMAIN v.kids : NonTransforming(v.kids[i])
    [] v.fam = "any" -> TRUE
    [] OTHER -> FALSE

RECURSIVE HasAny(_)
HasAny(v) == v.fam = "any" \/ \E i \in DOMAIN v.kids : HasAny(v.kids[i])

\* C15: for a schema of required, non-transforming validators, the data of an
\* accepted input is accepted again and comes back unchanged.
C15_RoundTrip ==
  (Returned /\ NonTransforming(Callee) /\ result.isValid) =>
    validate(Callee, result.data, path) = createSuccess(result.data)

\* the same, for schemas without an any() validator
C15_RoundTripNoAny ==
  (Called /\ ~HasAny(Callee)) => C15_RoundTrip

\* C16: the output of an accepted array has the length of the input, and
\* output[i] is the item validator's data for input[i].
C16_ArrayOutput ==
  (Returned /\ CompositeCall /\ Callee.fam = "array" /\ result.isValid) =>
    /\ Len(result.data.items) = Len(input.items)
    /\ \A i \in DOMAIN input.items :
         result.data.items[i] = ChildResults[i].data

\* the same, for inputs none of whose items is accepted with no data
C16_ArrayOutputWithData ==
  (Called /\ \A i \in DOMAIN ChildResults :
               ChildResults[i].data.k # "undefined") => C16_ArrayOutput

-----------------------------------------------------------------------------
(* Repeated validate calls on validators that share a RegExp *)

PatternValidators ==
  { pattern(SchemaString, GlobalPattern),
    minLength(trim(pattern(SchemaString, GlobalPattern)), 2),
    SchemaNullable(pattern(SchemaString, GlobalPattern)),
    pattern(SchemaString, "^[a-z]+$"),
    integer(SchemaNumber),
    SchemaArray(pattern(SchemaString, "^[0-9]+$")) }

PatternInputs ==
  { Undef, Str("ab"), Str(" ab "), Str("a"), Str("12"), Num(1),
    Arr(<<Str("12"), Str("ab")>>) }

InitPure ==
  \E v \in PatternValidators : \E x \in PatternInputs : \E p \in Paths :
    Start(v, x, p)

NextPure == CallOptional \/ CallWithMessage \/ CallMaxLength \/ CallValidate

SpecPure == InitPure /\ [][NextPure]_vars

\* C13: no step of the client, a validate call included, changes what any
\* instance returns for the value and path, and a validate call returns what
\* the instance was going to return.
C13_ValidateIsPure ==
  [][ /\ \A i \in DOMAIN heap :
           validate(heap[i], input, path)' = validate(heap[i], input, path)
      /\ target' # target => result' = validate(heap[target'], input, path)
    ]_vars

-----------------------------------------------------------------------------
(* Chains of optional(), withMessage() and a constraint setter *)

MaxChain == 3

ChainMessages == {"custom", "other"}

ChainValidators ==
  { SchemaString, SchemaNumber, SchemaBoolean, SchemaDate,
    SchemaArray(SchemaString), SchemaObject(<<"a">>, <<SchemaString>>),
    SchemaAny, SchemaNullable(minLength(SchemaString, 2)),
    SchemaUnion(<<minLength(SchemaString, 2), SchemaNumber>>) }

ChainInputs ==
  { Undef, Null, Str("a"), Str("ab"), Num(1), Bool(TRUE),
    Arr(<<Num(1)>>), Obj(<<>>) }

\* as Build, with the chain bound
Chain(i, op, arg, v) ==
  /\ Len(heap) < MaxChain
  /\ heap' = NewInstance(heap, i, v)
  /\ made' = Append(made, Made(op, i, arg))
  /\ UNCHANGED <<target, input, path, result, lastIndex, now, stack, game>>

ChainOptional ==
  \E i \in DOMAIN heap : Chain(i, "optional", "", optional(heap[i]))
ChainWithMessage ==
  \E i \in DOMAIN heap : \E m \in ChainMessages :
    Chain(i, "withMessage", m, withMessage(heap[i], m))
ChainMinLength ==
  \E i \in DOMAIN heap : Fam(i, {"string", "array"}) /\
    Chain(i, "minLength", "", minLength(heap[i], 2))

InitChain ==
  \E v \in ChainValidators : \E x \in ChainInputs : Start(v, x, "root")

NextChain ==
  ChainOptional \/ ChainWithMessage \/ ChainMinLength \/ CallValidate

SpecChain == InitChain /\ [][NextChain]_vars

\* the builder calls that led from the factory's instance to instance i: was
\* optional() among them, the message of the last withMessage (<<>> if none),
\* and the instance that the constraint setters alone would have built
RECURSIVE WasOptional(_)
WasOptional(i) ==
  made[i].op # "Schema"
    /\ (made[i].op = "optional" \/ WasOptional(made[i].from))

RECURSIVE LastMessage(_)
LastMessage(i) ==
  IF made[i].op = "Schema" THEN <<>>
  ELSE IF made[i].op = "withMessage" THEN <<made[i].arg>>
  ELSE LastMessage(made[i].from)

RECURSIVE Bare(_)
Bare(i) ==
  IF made[i].op = "Schema" THEN heap[i]
  ELSE IF made[i].op = "minLength" THEN minLength(Bare(made[i].from), 2)
  ELSE Bare(made[i].from)

\* C14: an instance built by optional(), withMessage(m) and constraint
\* setters in any order accepts the absence sentinels if optional() was
\* called, and otherwise accepts and rejects as the constraints alone do,
\* with the same data, error paths and values, every message being the last m.
C14_ChainPreserves ==
  Returned =>
    IF WasOptional(target) /\ Absent(input) THEN result.isValid
    ELSE LET r0 == validate(Bare(target), input, path)
             m == LastMessage(target)
         IN /\ result.isValid = r0.isValid
            /\ result.data = r0.data
            /\ Len(result.errors) = Len(r0.errors)
            /\ \A k \in DOMAIN result.errors :
                 /\ result.errors[k].path = r0.errors[k].path
                 /\ result.errors[k].value = r0.errors[k].value
                 /\ result.errors[k].message =
                      IF m # <<>> THEN m[1] ELSE r0.errors[k].message

\* the same, for the validators that extend BaseValidator
C14_ChainPreservesBase ==
  (Called /\ Callee.fam \in BaseFamilies) => C14_ChainPreserves

-----------------------------------------------------------------------------
(* Nested objects and arrays: the paths of the errors *)

MaxNested == 2

PathValidators ==
  { SchemaObject(<<"root">>, <<SchemaObject(<<"a">>, <<SchemaString>>)>>),
    SchemaObject(<<"a">>,
                 <<SchemaObject(<<"root", "b">>,
                                <<SchemaNumber, SchemaString>>)>>),
    SchemaObject(<<"a">>,
                 <<SchemaArray(SchemaObject(<<"a">>, <<SchemaString>>))>>),
    SchemaArray(SchemaObject(<<"root">>,
                             <<SchemaObject(<<"a">>, <<SchemaNumber>>)>>)),
    SchemaObject(<<"level1">>,
      <<SchemaObject(<<"level2">>,
          <<SchemaObject(<<"value", "b">>,
                         <<SchemaString, SchemaNumber>>)>>)>>) }

\* the inputs shaped as the validator v expects, with good and bad leaves
RECURSIVE Shapes(_), FieldCombos(_, _)
Shapes(v) ==
  CASE v.fam = "object" ->
         {Obj(entries) : entries \in FieldCombos(v, Len(v.keys))}
    [] v.fam = "array" ->
         {Arr(q) : q \in SeqsUpTo(Shapes(v.kids[1]), MaxNested)}
    [] OTHER -> {Str("ab"), Num(1)}
FieldCombos(v, n) ==
  IF n = 0 THEN {<<>>}
  ELSE {Append(q, Entry(v.keys[n], x)) :
          q \in FieldCombos(v, n - 1), x \in Shapes(v.kids[n])}

InitPaths ==
  \E v \in PathValidators : \E x \in Shapes(v) : \E p \in Paths :
    Start(v, x, p)

NextPaths == CallOptional \/ CallWithMessage \/ CallValidate

SpecPaths == InitPaths /\ [][NextPaths]_vars

\* the paths of the errors of v on value, in order, as the addressing rule
\* gives them: a field of an object at the validation root has its bare
\* name, a field of a nested object parent.name, an item parent[i]; a leaf
\* files its errors under its own address
RECURSIVE AddressedPaths(_, _, _, _)
AddressedPaths(v, value, atRoot, p) ==
  IF v.fam = "object" /\ value.k = "object"
  THEN Flatten([i \in DOMAIN v.keys |->
         AddressedPaths(v.kids[i], GetProp(value, v.keys[i]), FALSE,
                        IF atRoot THEN v.keys[i]
                        ELSE p \o "." \o v.keys[i])])
  ELSE IF v.fam = "array" /\ value.k = "array"
  THEN Flatten([i \in DOMAIN value.items |->
         AddressedPaths(v.kids[1], GetItem(value, i), FALSE,
                        p \o "[" \o ToString(i - 1) \o "]")])
  ELSE [k \in DOMAIN validate(v, value, p).errors |-> p]

\* C17: every error carries the full address of the failing node: the bare
\* field name for a field of the object validated at the validation root,
\* parent.name below it, parent[i] for array items.
C17_PathComposition ==
  (Returned /\ Callee.fam \in {"object", "array"}) =>
    [k \in DOMAIN result.errors |-> result.errors[k].path]
      = AddressedPaths(Callee, input, path = "root", path)

\* the same, for schemas without a field named root
RECURSIVE HasRootKey(_)
HasRootKey(v) ==
  \/ \E i \in DOMAIN v.keys : v.keys[i] = "root"
  \/ \E i \in DOMAIN v.kids : HasRootKey(v.kids[i])

C17_PathCompositionNoRootKey ==
  (Called /\ ~HasRootKey(Callee)) => C17_PathComposition

-----------------------------------------------------------------------------
(* unique(): which items count as equal *)

MaxUniqueItems == 2

UniqueItemValues ==
  { Obj(<<Entry("a", Num(1)), Entry("b", Num(2))>>),
    Obj(<<Entry("b", Num(2)), Entry("a", Num(1))>>),
    Obj(<<Entry("a", Num(1))>>),
    Str("{\"a\":1}"), Str("1"), Num(1), Arr(<<Num(1)>>) }

UniqueValidators ==
  { SchemaArray(SchemaAny),
    SchemaArray(SchemaObject(<<"a", "b">>,
                             <<SchemaNumber, optional(SchemaNumber)>>)),
    SchemaArray(SchemaUnion(<<SchemaString, SchemaNumber,
                              SchemaArray(SchemaNumber)>>)) }

InitUnique ==
  \E v \in UniqueValidators : \E p \in Paths :
    \E q \in SeqsUpTo(UniqueItemValues, MaxUniqueItems) : Start(v, Arr(q), p)

NextUnique == CallUnique \/ CallNoEmpty \/ CallValidate

SpecUnique == InitUnique /\ [][NextUnique]_vars

\* structural equality: primitives by kind and value, arrays item by item,
\* objects by their key sets and the values under each key
RECURSIVE StructEq(_, _)
StructEq(x, y) ==
  IF x.k # y.k THEN FALSE
  ELSE IF x.k = "array"
  THEN Len(x.items) = Len(y.items)
         /\ \A i \in DOMAIN x.items : StructEq(x.items[i], y.items[i])
  ELSE IF x.k = "object"
  THEN /\ {x.items[i].s : i \in DOMAIN x.items}
            = {y.items[i].s : i \in DOMAIN y.items}
       /\ \A i \in DOMAIN x.items :
            StructEq(GetProp(x, x.items[i].s), GetProp(y, x.items[i].s))
  ELSE x = y

\* every item was accepted with data, so that data index = input index
AllItemsKept ==
  \A i \in DOMAIN ChildResults :
    ChildResults[i].isValid /\ ChildResults[i].data.k # "undefined"

\* C18: under unique() an item is flagged exactly when it is structurally
\* equal to an earlier item; key order and identity play no part, and a
\* primitive never equals an object or array.
C18_StructuralEquality ==
  (Returned /\ CompositeCall /\ Callee.fam = "array" /\ Callee.unique
     /\ AllItemsKept) =>
    LET flagged == SelectSeq(result.errors, IsUniqueError)
    IN {flagged[j].path : j \in DOMAIN flagged}
         = {ItemPath(path, i - 1) : i \in
              {j \in DOMAIN input.items : \E h \in 1..(j - 1) :
                 StructEq(ChildResults[h].data, ChildResults[j].data)}}

\* the same, for arrays of primitive items
C18_PrimitiveEquality ==
  (Called /\ \A i \in DOMAIN input.items :
               input.items[i].k \notin {"object", "array"})
    => C18_StructuralEquality

-----------------------------------------------------------------------------
(* String and number validators with every combination of constraints *)

UuidText == "12345678-1234-1234-8234-123456789abc"

When(flag, v, w) == IF flag THEN w ELSE v

StringConfigs ==
  { LET v1 == When(f[1], SchemaString, minLength(SchemaString, 3))
        v2 == When(f[2], v1, maxLength(v1, 1))
        v3 == When(f[3], v2, pattern(v2, "^[a-z]+$"))
        v4 == When(f[4], v3, email(v3))
        v5 == When(f[5], v4, url(v4))
    IN When(f[6], v5, uuid(v5)) : f \in [1..6 -> BOOLEAN] }

NumberConfigs ==
  { LET v1 == When(f[1], SchemaNumber, finite(SchemaNumber))
        v2 == When(f[2], v1, min(v1, <<2>>))
        v3 == When(f[3], v2, max(v2, <<0>>))
        v4 == When(f[4], v3, integer(v3))
        v5 == When(f[5], v4, positive(v4))
        v6 == When(f[6], v5, negative(v5))
    IN When(f[7], v6, multipleOf(v6, 4)) : f \in [1..7 -> BOOLEAN] }

StringInputs ==
  { Str(""), Str("ab"), Str("abcd"), Str(" ab"), Str("a@b.co"),
    Str("http://a.co"), Str(UuidText), Undef }

NumberInputs ==
  { Num(0), Num(1), Half(1), Num(-2), Num(2), Infinity, NegInfinity, NaN,
    Str("ab") }

InitRules ==
  \/ \E v \in StringConfigs : \E x \in StringInputs : Start(v, x, "root")
  \/ \E v \in NumberConfigs : \E x \in NumberInputs : Start(v, x, "root")

NextRules == CallTrim \/ CallOptional \/ CallValidate

SpecRules == InitRules /\ [][NextRules]_vars

StringRules == <<"minLength", "maxLength", "pattern", "email", "url", "uuid">>
NumberRules ==
  <<"finite", "min", "max", "integer", "positive", "negative", "multipleOf">>

\* the value x violates the configured rule r of v
Violates(v, x, r) ==
  LET t == IF v.trim THEN Trim(x.s) ELSE x.s
  IN CASE r = "minLength" -> v.minLength # <<>> /\ Len(t) < v.minLength[1]
       [] r = "maxLength" -> v.maxLength # <<>> /\ Len(t) > v.maxLength[1]
       [] r = "pattern" -> v.pattern # "" /\ ~RegExpTest(v.pattern, t)
       [] r = "email" -> v.email /\ ~IsEmail(t)
       [] r = "url" -> v.url /\ ~IsUrl(t)
       [] r = "uuid" -> v.uuid /\ ~UuidRegexTest(t)
       [] r = "finite" -> v.finite /\ x.s # ""
       [] r = "min" -> v.min # <<>> /\ NumLess(x, v.min[1])
       [] r = "max" -> v.max # <<>> /\ NumGreater(x, v.max[1])
       [] r = "integer" -> v.integer /\ (x.s # "" \/ x.n % 2 # 0)
       [] r = "positive" -> v.positive /\ ~NumGreater(x, 0)
       [] r = "negative" -> v.negative /\ ~NumLess(x, 0)
       [] r = "multipleOf" ->
            v.multipleOf # <<>> /\ RemNonZero(x, v.multipleOf[1])

\* the rule an error message speaks of
RuleOf(message) ==
  CASE StartsWith(message, "String must be at least") -> "minLength"
    [] StartsWith(message, "String must be at most") -> "maxLength"
    [] StartsWith(message, "String does not match") -> "pattern"
    [] StartsWith(message, "Invalid email") -> "email"
    [] StartsWith(message, "Invalid URL") -> "url"
    [] StartsWith(message, "Invalid UUID") -> "uuid"
    [] StartsWith(message, "Number must be finite") -> "finite"
    [] StartsWith(message, "Number must be at least") -> "min"
    [] StartsWith(message, "Number must be at most") -> "max"
    [] StartsWith(message, "Number must be an integer") -> "integer"
    [] StartsWith(message, "Number must be positive") -> "positive"
    [] StartsWith(message, "Number must be negative") -> "negative"
    [] StartsWith(message, "Number must be a multiple of") -> "multipleOf"
    [] Includes(message, "NaN") -> "NaN"
    [] OTHER -> "other"

\* C19: a string or number validator given a value of its type reports one
\* error per violated constraint, in the rule order, and nothing else; a NaN
\* gets its one dedicated error.
C19_AllViolations ==
  (Returned /\ Callee.fam \in {"string", "number"}
     /\ TypeOf(input) = Callee.fam) =>
    LET rules == IF Callee.fam = "string" THEN StringRules ELSE NumberRules
        expected == IF input = NaN THEN <<"NaN">>
                    ELSE SelectSeq(rules,
                           LAMBDA r : Violates(Callee, input, r))
    IN /\ [k \in DOMAIN result.errors |-> RuleOf(result.errors[k].message)]
            = expected
       /\ \A k \in DOMAIN result.errors : result.errors[k].path = path
       /\ result.isValid <=> expected = <<>>

\* C19 witness: one value violated four constraints or more.
C19_Witness ==
  /\ Returned /\ Callee.fam \in {"string", "number"}
  /\ TypeOf(input) = Callee.fam
  /\ Len(result.errors) >= 4

-----------------------------------------------------------------------------
(* Date validators on date and date-time strings *)

DateTexts ==
  { y \o "-" \o m \o "-" \o d \o t :
      y \in {"1970", "2024"},
      m \in {"00", "01", "02", "12", "13"},
      d \in {"00", "01", "29", "30", "31", "32"},
      t \in {"", "T00:00:00Z"} }

InitDates ==
  \E v \in {SchemaDate, iso(SchemaDate)} : \E s \in DateTexts :
    Start(v, Str(s), "root")

NextDates == CallIso \/ CallMax \/ CallOptional \/ CallValidate

SpecDates == InitDates /\ [][NextDates]_vars

\* the month and day written in a YYYY-MM-DD... text
MonthOf(s) == Field(s, 6, 7)
DayOf(s) == Field(s, 9, 10)

ImpossibleDate(s) ==
  \/ MonthOf(s) \notin 1..12
  \/ DayOf(s) \notin 1..31
  \/ MonthOf(s) = 2 /\ DayOf(s) > 29

\* no format is configured, or the configured format accepts the text
FormatPassed(v, s) ==
  \/ v.format = ""
  \/ v.format = "iso" /\ IsoRegexTest(s)
  \/ v.format = "timestamp" /\ Len(s) > 0 /\ AllChars(s, IsDigit)

\* C20: a date string with a month outside 1..12, a day outside 1..31 or a
\* February day above 29 is rejected with an invalid-date error, with no
\* format configured and with a format that the string passed.
C20_ImpossibleDates ==
  (Returned /\ Callee.fam = "date" /\ TypeOf(input) = "string"
     /\ ImpossibleDate(input.s) /\ FormatPassed(Callee, input.s)) =>
    /\ ~result.isValid
    /\ \E k \in DOMAIN result.errors :
         result.errors[k].message = "Invalid date"

\* the same, for validators without a format
C20_ImpossibleDatesNoFormat ==
  (Called /\ Callee.format = "") => C20_ImpossibleDates

\* the text parses to a valid date that lies after the configured max
AfterMax(v, s) ==
  /\ v.max # <<>>
  /\ ~IsInvalidDate(ParseDateString(s))
  /\ DateGreater(ParseDateString(s), v.max)

HasMessage(errors, prefix) ==
  \E k \in DOMAIN errors : StartsWith(errors[k].message, prefix)

\* C21: a date string that is calendar-implausible and also lies after the
\* configured max yields a failure that holds an invalid-date error and a
\* bound error.
C21_Accumulates ==
  (Returned /\ Callee.fam = "date" /\ Callee.format = ""
     /\ TypeOf(input) = "string" /\ ImpossibleDate(input.s)
     /\ AfterMax(Callee, input.s)) =>
    /\ ~result.isValid
    /\ HasMessage(result.errors, "Invalid date")
    /\ HasMessage(result.errors, "Date must be before")

\* the failure is reported, with the invalid-date error alone
C21_FirstViolationOnly ==
  (Returned /\ Callee.fam = "date" /\ Callee.format = ""
     /\ TypeOf(input) = "string" /\ ImpossibleDate(input.s)
     /\ AfterMax(Callee, input.s)) =>
    /\ ~result.isValid
    /\ Len(result.errors) = 1
    /\ result.errors[1].message = "Invalid date"

C21_Reached ==
  /\ Returned /\ Callee.fam = "date" /\ Callee.format = ""
  /\ TypeOf(input) = "string" /\ ImpossibleDate(input.s)
  /\ AfterMax(Callee, input.s)

-----------------------------------------------------------------------------
(* Date validators with a format and bounds, on values of every kind *)

FormatValidators == {SchemaDate, iso(SchemaDate), timestamp(SchemaDate)}

FormatInputs ==
  Scalars \cup
  { Str("2024-01-01"), Str("2024-01-01T00:00:00Z"),
    Str("1970-01-01T00:00:00"), Str("1970-01-01T00:00:00.006Z"),
    Str("1970-01-01T00:00:00.0Z"), Str("1970-01-01 00:00:00"),
    Str("3"), Str("6"), Str("12a"), Str("-1"),
    Num(3), Num(6), DateAt(1, 0), Arr(<<>>), Obj(<<>>) }

InitFormat ==
  \E v \in FormatValidators : \E x \in FormatInputs : \E p \in Paths :
    Start(v, x, p)

NextFormat == CallMin \/ CallMax \/ CallRange \/ CallWithMessage \/ CallValidate

SpecFormat == InitFormat /\ [][NextFormat]_vars

\* the value has the form the format names
FormatAccepts(format, x) ==
  CASE format = "iso" -> TypeOf(x) = "string" /\ IsoRegexTest(x.s)
    [] format = "timestamp" ->
         \/ TypeOf(x) = "number"
         \/ TypeOf(x) = "string" /\ Len(x.s) > 0 /\ AllChars(x.s, IsDigit)
    [] OTHER -> TRUE

FormatMessages == {IsoFormatMessage, "Date must be a valid timestamp"}

FormatMessageOf(v) ==
  IF v.message # <<>> /\ v.message[1] # "" THEN v.message[1]
  ELSE IF v.format = "iso" THEN IsoFormatMessage
  ELSE "Date must be a valid timestamp"

\* the instant the validator compares with its bounds
InstantOf(v, x) ==
  IF x.k = "date" THEN x
  ELSE IF TypeOf(x) = "number" THEN NewDateFromNumber(x)
  ELSE IF v.format = "timestamp" THEN NewDateFromDigits(x.s)
  ELSE ParseDateString(x.s)

OutOfBounds(v, d) ==
  \/ v.min # <<>> /\ DateLess(d, v.min)
  \/ v.max # <<>> /\ DateGreater(d, v.max)

\* C22: with a format configured, a value that fails the format yields
\* exactly one error, the format error at the call path, whatever bounds are
\* configured; a value that passes the format gets no format error, and its
\* bounds are then checked.
C22_FormatFirst ==
  (Returned /\ Callee.fam = "date" /\ Callee.format # "") =>
    IF ~FormatAccepts(Callee.format, input)
    THEN /\ ~result.isValid
         /\ result.errors =
              <<[path |-> path, message |-> FormatMessageOf(Callee),
                 value |-> input]>>
    ELSE /\ \A k \in DOMAIN result.errors :
              result.errors[k].message \notin FormatMessages
         /\ (~IsInvalidDate(InstantOf(Callee, input))
               => (result.isValid <=> ~OutOfBounds(Callee, InstantOf(Callee, input))))

\* C22 witness: a value that fails the configured format and whose instant
\* lies outside the configured bound was validated.
C22_Witness ==
  /\ Returned /\ Callee.fam = "date" /\ Callee.format = "iso"
  /\ Callee.max # <<>> /\ Callee.message = <<>>
  /\ input = Str("2024-01-01")
  /\ DateGreater(ParseDateString(input.s), Callee.max)
  /\ Len(result.errors) = 1

\* a value that passes the timestamp format and violates the bound
C22_WitnessBound ==
  /\ Returned /\ Callee.format = "timestamp" /\ Callee.max # <<>>
  /\ input = Str("6")
  /\ ~result.isValid
  /\ HasMessage(result.errors, "Date must be before")

-----------------------------------------------------------------------------
(* Date validators built by past(), future(), min() and max() while the     *)
(* clock advances                                                           *)

MaxClock == 3

ClockBounds == {1, 3}

ClockInputs ==
  {DateAt(0, k) : k \in 0..(MaxClock + 1)} \cup {Num(1), Num(3), InvalidDate}

\* the clock advances between two calls of the client
Tick ==
  /\ now < MaxClock
  /\ now' = now + 1
  /\ UNCHANGED <<heap, made, target, input, path, result, lastIndex, stack,
                 game>>

\* the client continues its chain on the instance the last call returned
CallPast ==
  Chain(Len(heap), "past", ToString(now), past(heap[Len(heap)], <<0, now>>))
CallFuture ==
  Chain(Len(heap), "future", ToString(now),
        future(heap[Len(heap)], <<0, now>>))
ChainMin ==
  \E b \in ClockBounds :
    Chain(Len(heap), "min", ToString(b), min(heap[Len(heap)], <<0, b>>))
ChainMax ==
  \E b \in ClockBounds :
    Chain(Len(heap), "max", ToString(b), max(heap[Len(heap)], <<0, b>>))

InitClock == \E x \in ClockInputs : Start(SchemaDate, x, "root")

NextClock ==
  Tick \/ CallPast \/ CallFuture \/ ChainMin \/ ChainMax \/ CallValidate

SpecClock == InitClock /\ [][NextClock]_vars

\* the bound of one side ("min" or "max") that the calls leading to instance
\* i set last (<<>>: none), each past()/future() standing for the clock value
\* at the time of that call
RECURSIVE BoundOf(_, _)
BoundOf(i, side) ==
  LET m == made[i]
  IN IF m.op = "Schema" THEN <<>>
     ELSE IF \/ side = "max" /\ m.op \in {"past", "max"}
             \/ side = "min" /\ m.op \in {"future", "min"}
     THEN <<0, ParseInt(m.arg)[1]>>
     ELSE BoundOf(m.from, side)

InsideBounds(d, lo, hi) ==
  /\ lo = <<>> \/ ~DateLess(d, lo)
  /\ hi = <<>> \/ ~DateGreater(d, hi)

\* C23: a validator accepts a date d exactly when d lies within the bounds
\* its builder calls set last, where past() set max and future() set min to
\* the clock value at the time of the builder call, whatever the clock shows
\* when validate runs.
C23_CapturedAtBuild ==
  (Returned /\ ~IsInvalidDate(InstantOf(Callee, input))) =>
    (result.isValid <=>
       InsideBounds(InstantOf(Callee, input),
                    BoundOf(target, "min"), BoundOf(target, "max")))

\* C23 witness: past() was called at t0, the clock advanced, and a date
\* after t0 and not after the current clock value was rejected.
C23_Witness ==
  /\ Returned /\ made[target].op = "past" /\ input.k = "date"
  /\ ~IsInvalidDate(input)
  /\ DateGreater(input, <<0, ParseInt(made[target].arg)[1]>>)
  /\ ~DateGreater(input, <<0, now>>)
  /\ ~result.isValid

\* future() at t0 accepts a date between t0 and the current clock value
C23_WitnessFuture ==
  /\ Returned /\ made[target].op = "future" /\ input.k = "date"
  /\ ~IsInvalidDate(input)
  /\ DateGreater(input, <<0, ParseInt(made[target].arg)[1]>>)
  /\ DateLess(input, <<0, now>>)
  /\ result.isValid

\* max() after past() replaced the captured bound
C23_WitnessReplaced ==
  /\ Returned /\ made[target].op = "max"
  /\ made[made[target].from].op = "past"
  /\ input.k = "date" /\ ~IsInvalidDate(input)
  /\ DateGreater(input, <<0, ParseInt(made[made[target].from].arg)[1]>>)
  /\ result.isValid

-----------------------------------------------------------------------------
(* Boolean validators built by chains of strict() and truthy() *)

ModeInputs ==
  Scalars \cup
  { Str("TRUE"), Str(" Yes "), Str("on"), Str("1"), Str("False"),
    Str("no"), Str(" OFF"), Str("0"), Str("maybe"), Str("2"),
    Num(2), Arr(<<>>), Obj(<<>>) }

ChainStrict ==
  \E i \in DOMAIN heap : Chain(i, "strict", "", strict(heap[i]))
ChainTruthy ==
  \E i \in DOMAIN heap : Chain(i, "truthy", "", truthy(heap[i]))

InitModes == \E x \in ModeInputs : \E p \in Paths : Start(SchemaBoolean, x, p)

NextModes == ChainStrict \/ ChainTruthy \/ CallValidate

SpecModes == InitModes /\ [][NextModes]_vars

\* op is among the builder calls that led to instance i
RECURSIVE WasCalled(_, _)
WasCalled(i, op) ==
  /\ made[i].op # "Schema"
  /\ (made[i].op = op \/ WasCalled(made[i].from, op))

OneError(message) ==
  result = createFailure(<<[path |-> path, message |-> message,
                            value |-> input]>>)

StrictOutcome ==
  IF TypeOf(input) = "boolean" THEN result = createSuccess(input)
  ELSE OneError("Expected boolean, received " \o TypeOf(input))

TruthyOutcome == result = createSuccess(Bool(Truthy(input)))

BoolWord == Trim(ToLowerCase(input.s))

DefaultOutcome ==
  IF TypeOf(input) = "boolean" THEN result = createSuccess(input)
  ELSE IF \/ TypeOf(input) = "string" /\ BoolWord \in {"true", "1", "yes", "on"}
          \/ input = Num(1)
  THEN result = createSuccess(Bool(TRUE))
  ELSE IF \/ TypeOf(input) = "string"
             /\ BoolWord \in {"false", "0", "no", "off"}
          \/ input = Num(0)
  THEN result = createSuccess(Bool(FALSE))
  ELSE OneError("Cannot convert " \o TypeOf(input) \o " to boolean")

\* C25: a boolean validator on which strict() was called accepts exactly the
\* native booleans, one on which truthy() was called accepts every input and
\* returns its truthiness, and one on which neither was called follows the
\* default table.
C25_Modes ==
  (Returned /\ Callee.fam = "boolean") =>
    /\ WasCalled(target, "strict") => StrictOutcome
    /\ WasCalled(target, "truthy") => TruthyOutcome
    /\ (~WasCalled(target, "strict") /\ ~WasCalled(target, "truthy"))
         => DefaultOutcome

\* the same, with strict() taking precedence over truthy()
C25_ModesStrictWins ==
  (Returned /\ Callee.fam = "boolean") =>
    /\ WasCalled(target, "strict") => StrictOutcome
    /\ (WasCalled(target, "truthy") /\ ~WasCalled(target, "strict"))
         => TruthyOutcome
    /\ (~WasCalled(target, "strict") /\ ~WasCalled(target, "truthy"))
         => DefaultOutcome

C25_ReachedBoth ==
  /\ Returned /\ made[target].op = "truthy"
  /\ made[made[target].from].op = "strict"
  /\ input = Str(" Yes ")
  /\ ~result.isValid

-----------------------------------------------------------------------------
(* Object validators rebuilt by pick(), omit() and extend() *)

AB == SchemaObject(<<"a", "b">>, <<SchemaString, optional(SchemaNumber)>>)

FieldValidators ==
  { AB, strict(AB), allowNull(AB), optional(AB), withMessage(AB, "custom"),
    partial(AB), SchemaObject(<<>>, <<>>) }

FieldInputs ==
  { Undef, Null, Obj(<<>>), Obj(<<Entry("a", Str("x"))>>),
    Obj(<<Entry("a", Num(1)), Entry("b", Num(1))>>),
    Obj(<<Entry("b", Str("x")), Entry("c", Bool(TRUE))>>) }

KeyLists == {<<>>, <<"a">>, <<"b">>, <<"b", "a">>, <<"a", "z">>, <<"a", "a">>}

Extensions ==
  { <<<<>>, <<>>>>, <<<<"c">>, <<SchemaBoolean>>>>,
    <<<<"a">>, <<optional(SchemaNumber)>>>>,
    <<<<"c", "b">>, <<SchemaBoolean, SchemaString>>>> }

PickKeys ==
  \E i \in DOMAIN heap : \E keys \in KeyLists :
    Fam(i, {"object"}) /\ Build(i, "pick", keys, pick(heap[i], keys))
OmitKeys ==
  \E i \in DOMAIN heap : \E keys \in KeyLists :
    Fam(i, {"object"}) /\ Build(i, "omit", keys, omit(heap[i], keys))
ExtendFields ==
  \E i \in DOMAIN heap : \E ext \in Extensions :
    Fam(i, {"object"}) /\ Build(i, "extend", ext, extend(heap[i], ext[1], ext[2]))

InitFields ==
  \E v \in FieldValidators : \E x \in FieldInputs : Start(v, x, "root")

NextFields == PickKeys \/ OmitKeys \/ ExtendFields \/ CallValidate

SpecFields == InitFields /\ [][NextFields]_vars

\* the field map of an object validator, as a function from its keys
KeySet(v) == {v.keys[i] : i \in DOMAIN v.keys}
FieldOf(v, key) == v.kids[CHOOSE i \in DOMAIN v.keys : v.keys[i] = key]
Listed(keys) == {keys[i] : i \in DOMAIN keys}
NoRepeatedKey(v) == Cardinality(KeySet(v)) = Len(v.keys)

SameFlags(v, w) ==
  /\ v.fam = w.fam /\ v.strict = w.strict /\ v.allowNull = w.allowNull
  /\ v.optional = w.optional /\ v.message = w.message

\* the new instance w is what the call (op, arg) on the receiver r must return
Rebuilt(r, w, op, arg) ==
  /\ SameFlags(r, w) /\ NoRepeatedKey(w)
  /\ op = "pick" =>
       /\ KeySet(w) = KeySet(r) \cap Listed(arg)
       /\ \A key \in KeySet(w) : FieldOf(w, key) = FieldOf(r, key)
  /\ op = "omit" =>
       /\ KeySet(w) = KeySet(r) \ Listed(arg)
       /\ \A key \in KeySet(w) : FieldOf(w, key) = FieldOf(r, key)
  /\ op = "extend" =>
       /\ KeySet(w) = KeySet(r) \cup Listed(arg[1])
       /\ \A key \in KeySet(w) :
            FieldOf(w, key) =
              IF key \in Listed(arg[1])
              THEN arg[2][CHOOSE i \in DOMAIN arg[1] : arg[1][i] = key]
              ELSE FieldOf(r, key)

C26_WitnessPick ==
  /\ Returned /\ made[target].op = "pick"
  /\ heap[made[target].from].message # <<>>
  /\ KeySet(Callee) = {"b"} /\ FieldOf(Callee, "b").optional
  /\ result.isValid

\* omit dropped a required field, and a value without it was accepted
C26_WitnessOmit ==
  /\ Returned /\ made[target].op = "omit"
  /\ KeySet(Callee) = {"b"} /\ input = Obj(<<>>)
  /\ result.isValid
  /\ ~validate(heap[made[target].from], input, path).isValid

-----------------------------------------------------------------------------
(* validate followed call by call: every nested validate call is a frame on *)
(* the stack, with the position of the loop that makes the nested calls     *)

MaxDepth == 3

\* schemas nested MaxDepth deep, each declaring the key that holds the cycle
RECURSIVE SelfObject(_)
SelfObject(d) ==
  IF d = 1 THEN SchemaObject(<<"a">>, <<SchemaNumber>>)
  ELSE SchemaObject(<<"a", "self">>, <<SchemaNumber, SelfObject(d - 1)>>)

RECURSIVE SelfArray(_)
SelfArray(d) ==
  IF d = 1 THEN SchemaAny ELSE SchemaArray(SelfArray(d - 1))

StepValidators ==
  { SelfObject(MaxDepth), strict(SelfObject(MaxDepth)),
    SelfArray(MaxDepth), unique(SchemaArray(SelfObject(MaxDepth - 1))),
    SchemaObject(<<"self", "list">>,
                 <<SchemaNullable(SelfObject(MaxDepth - 1)),
                   SchemaArray(SchemaUnion(<<SchemaNumber,
                                             SelfArray(MaxDepth - 1)>>))>>),
    SchemaObject(<<"self">>, <<optional(SelfObject(MaxDepth - 1))>>) }

StepInputs ==
  { Null, Num(1), ObjA1, CycObj,
    Obj(<<Entry("self", Cycle)>>),
    Obj(<<Entry("self", Cycle), Entry("list", Arr(<<Cycle, Num(1)>>))>>),
    Obj(<<Entry("self", ObjA1), Entry("list", Arr(<<>>))>>),
    Arr(<<>>), Arr(<<Cycle>>), Arr(<<Num(1), Cycle>>), Arr(<<Cycle, Cycle>>),
    Arr(<<CycObj, CycObj>>), Arr(<<Arr(<<Cycle>>), ObjA1>>) }

Frame(v, value, p) == [v |-> v, value |-> value, p |-> p, next |-> 1]

Top == stack[Len(stack)]

\* faulty variant: the nested call is made on the validator itself
SameValidator(v, k) == v

\* the validator that receives the k-th nested call: the item validator for
\* every item, the validator of the k-th schema entry, the wrapped validator,
\* the k-th member
ChildValidator(v, k) == IF v.fam = "array" THEN v.kids[1] ELSE v.kids[k]

ChildFrame(f, k) ==
  CASE f.v.fam = "object" ->
         Frame(ChildValidator(f.v, k), GetProp(f.value, f.v.keys[k]),
               FieldPath(f.p, f.v.keys[k]))
    [] f.v.fam = "array" ->
         Frame(ChildValidator(f.v, k), GetItem(f.value, k),
               ItemPath(f.p, k - 1))
    [] OTHER -> Frame(ChildValidator(f.v, k), f.value, f.p)

\* the loop of the frame has another nested call to make
MoreCalls(f) ==
  CASE f.v.fam = "object" ->
         /\ ~(f.v.optional /\ Absent(f.value))
         /\ f.value.k # "null" /\ TypeOf(f.value) = "object"
         /\ ~IsArray(f.value)
         /\ f.next <= Len(f.v.keys)
    [] f.v.fam = "array" ->
         /\ ~(f.v.optional /\ Absent(f.value))
         /\ IsArray(f.value)
         /\ f.next <= Len(f.value.items)
    [] f.v.fam = "nullable" -> ~Absent(f.value) /\ f.next <= 1
    [] f.v.fam = "union" ->
         /\ f.next <= Len(f.v.kids)
         /\ (f.next > 1 =>
               ~validate(f.v.kids[f.next - 1], f.value, f.p).isValid)
    [] OTHER -> FALSE

\* heap[i].validate(input, path) is entered
Enter ==
  \E i \in DOMAIN heap :
    /\ stack = <<>>
    /\ stack' = <<Frame(heap[i], input, path)>>
    /\ target' = i
    /\ result' = NoResult
    /\ UNCHANGED <<heap, made, input, path, lastIndex, now, game>>

\* the running call makes its next nested validate call
Descend ==
  /\ stack # <<>>
  /\ MoreCalls(Top)
  /\ stack' = Append([stack EXCEPT ![Len(stack)].next = @ + 1],
                     ChildFrame(Top, Top.next))
  /\ UNCHANGED <<heap, made, target, input, path, result, lastIndex, now,
                 game>>

\* the running call returns to its caller, or throws through all of them
Return ==
  /\ stack # <<>>
  /\ ~MoreCalls(Top)
  /\ LET r == validate(Top.v, Top.value, Top.p)
     IN IF Len(stack) = 1 \/ r.threw
        THEN /\ stack' = <<>>
             /\ result' = r
             /\ lastIndex' = LastIndexAfter(heap[target], input)
        ELSE /\ stack' = SubSeq(stack, 1, Len(stack) - 1)
             /\ UNCHANGED <<result, lastIndex>>
  /\ UNCHANGED <<heap, made, target, input, path, now, game>>

InitSteps ==
  \E v \in StepValidators : \E x \in StepInputs : Start(v, x, "root")

NextSteps == Enter \/ Descend \/ Return

SpecSteps == InitSteps /\ [][NextSteps]_vars

\* the nesting depth of a schema
RECURSIVE Depth(_)
Depth(v) ==
  IF v.kids = <<>> THEN 1
  ELSE 1 + CHOOSE d \in {Depth(v.kids[i]) : i \in DOMAIN v.kids} :
             \A i \in DOMAIN v.kids : Depth(v.kids[i]) <= d

DepthBounded ==
  Len(stack) <= IF target = 0 THEN 0 ELSE Depth(heap[target])

\* the nested calls that validate of v on value can make, at most (a
\* union may stop before its last member)
Positions(v, value) ==
  CASE v.fam = "object" ->
         IF ~(v.optional /\ Absent(value)) /\ value.k # "null"
              /\ TypeOf(value) = "object" /\ ~IsArray(value)
         THEN Len(v.keys) ELSE 0
    [] v.fam = "array" ->
         IF ~(v.optional /\ Absent(value)) /\ IsArray(value)
         THEN Len(value.items) ELSE 0
    [] v.fam = "nullable" -> IF Absent(value) THEN 0 ELSE 1
    [] v.fam = "union" -> Len(v.kids)
    [] OTHER -> 0

\* an upper bound of the steps of validate of v on value from position k on:
\* its own return, and for every position left a call with all the steps of
\* the callee, which is the schema's child on the value's child
RECURSIVE StepsLeft(_, _, _)
StepsLeft(v, value, k) ==
  IF k > Positions(v, value) THEN 1
  ELSE 1 + StepsLeft(v, value, k + 1)
         + (CASE v.fam = "object" ->
                   StepsLeft(v.kids[k], GetProp(value, v.keys[k]), 1)
              [] v.fam = "array" ->
                   StepsLeft(v.kids[1], GetItem(value, k), 1)
              [] OTHER -> StepsLeft(v.kids[k], value, 1))

RECURSIVE Rank(_)
Rank(frames) ==
  IF frames = <<>> THEN 0
  ELSE StepsLeft(frames[Len(frames)].v, frames[Len(frames)].value,
                 frames[Len(frames)].next)
         + Rank(SubSeq(frames, 1, Len(frames) - 1))

\* C27: a validate call on any input, cyclic ones included, never nests
\* deeper than the schema, and every step of a running call lowers a bound
\* on the steps it has left, so the call returns (or throws) after finitely
\* many steps.
C27_Terminates ==
  /\ []DepthBounded
  /\ [][stack # <<>> => Rank(stack') < Rank(stack)]_vars

\* the value the call returns is the value of validate
StepsAgree ==
  (Called /\ stack = <<>>) => result = validate(heap[target], input, path)

\* C27 witness: a call on a cyclic value reached the full depth of the
\* schema on the node it started from.
C27_Witness ==
  /\ Len(stack) = MaxDepth
  /\ HasCycle(input)
  /\ Top.value = input
  /\ Top.v.fam \in {"object", "array"}

\* a call on a cyclic value returned
C27_WitnessReturned ==
  /\ Called /\ stack = <<>> /\ ~result.threw
  /\ HasCycle(input) /\ Depth(Callee) >= MaxDepth

-----------------------------------------------------------------------------
(* Sea Battle: Ship, Board, CPUPlayer and SeaBattleGame.  A location is the  *)
(* two-character string `${row}${col}`.  Every Math.random() outcome is a    *)
(* choice: the ships that placeShipsRandomly ends up with are any ships it   *)
(* accepts, the cell that makeRandomGuess returns is any cell that ends its  *)
(* retry loop.                                                               *)

\* the arguments <<boardSize, numShips, shipLength>> the games are
\* constructed with
Games == {<<3, 2, 3>>, <<2, 1, 2>>, <<2, 2, 2>>}

Loc(row, col) == ToString(row) \o ToString(col)

\* parseLocation(location)
parseLocation(location) ==
  <<DigitValue(CharAt(location, 1)), DigitValue(CharAt(location, 2))>>

\* Board.isValidCoordinate and CPUPlayer.isValidCoordinate
isValidCoordinate(size, row, col) ==
  row >= 0 /\ row < size /\ col >= 0 /\ col < size

\* new Ship(locations)
Ship(locations) ==
  [locations |-> locations, hits |-> [i \in DOMAIN locations |-> FALSE]]

\* ship.hit(location) returns true (and then marks the hit)
CanHit(ship, location) ==
  \E i \in DOMAIN ship.locations :
    ship.locations[i] = location /\ ~ship.hits[i]
hit(ship, location) ==
  [ship EXCEPT !.hits[CHOOSE i \in DOMAIN ship.locations :
                        ship.locations[i] = location] = TRUE]

isSunk(ship) == \A i \in DOMAIN ship.hits : ship.hits[i]

\* new Board(size)
Board(size) ==
  [size |-> size,
   grid |-> [row \in 0..(size - 1) |-> [col \in 0..(size - 1) |-> "~"]],
   ships |-> <<>>]

\* the ships that generateRandomShip(length) can return
generateRandomShip(size, shipLen) ==
  { Ship([i \in 1..shipLen |-> Loc(startRow, startCol + i - 1)]) :
      startRow \in 0..(size - 1), startCol \in 0..(size - shipLen) }
  \cup
  { Ship([i \in 1..shipLen |-> Loc(startRow + i - 1, startCol)]) :
      startRow \in 0..(size - shipLen), startCol \in 0..(size - 1) }

canPlaceShip(board, locations) ==
  \A i \in DOMAIN locations :
    LET rc == parseLocation(locations[i])
    IN /\ isValidCoordinate(board.size, rc[1], rc[2])
       /\ board.grid[rc[1]][rc[2]] = "~"

RECURSIVE markShipOnGrid(_, _)
markShipOnGrid(grid, locations) ==
  IF locations = <<>> THEN grid
  ELSE LET rc == parseLocation(Head(locations))
       IN markShipOnGrid([grid EXCEPT ![rc[1]][rc[2]] = "S"], Tail(locations))

\* the boards that placeShipsRandomly(numShips, shipLength) can end with
RECURSIVE placeShipsRandomly(_, _, _)
placeShipsRandomly(board, numShips, shipLength) ==
  IF numShips = 0 THEN {board}
  ELSE UNION
    { placeShipsRandomly(
        [board EXCEPT !.ships = Append(@, ship),
                      !.grid = markShipOnGrid(@, ship.locations)],
        numShips - 1, shipLength) :
      ship \in { sh \in generateRandomShip(board.size, shipLength) :
                   canPlaceShip(board, sh.locations) } }

\* the first ship whose hit(location) returns true, 0 when none does
FirstHit(ships, location) ==
  IF \E i \in DOMAIN ships : CanHit(ships[i], location)
  THEN CHOOSE i \in DOMAIN ships :
         /\ CanHit(ships[i], location)
         /\ \A j \in 1..(i - 1) : ~CanHit(ships[j], location)
  ELSE 0

GuessResult(wasHit, wasSunk, alreadyGuessed) ==
  [hit |-> wasHit, sunk |-> wasSunk, alreadyGuessed |-> alreadyGuessed]

\* board.processGuess(location, guessedLocations): the board, the guess set
\* and the result after the call
processGuess(board, location, guessedLocations) ==
  IF location \in guessedLocations
  THEN [board |-> board, guessedLocations |-> guessedLocations,
        result |-> GuessResult(FALSE, FALSE, TRUE)]
  ELSE
    LET rc == parseLocation(location)
        k == FirstHit(board.ships, location)
        ship == hit(board.ships[k], location)
    IN IF k # 0
       THEN [board |-> [board EXCEPT !.ships[k] = ship,
                                     !.grid[rc[1]][rc[2]] = "X"],
             guessedLocations |-> guessedLocations \cup {location},
             result |-> GuessResult(TRUE, isSunk(ship), FALSE)]
       ELSE [board |-> [board EXCEPT !.grid[rc[1]][rc[2]] = "O"],
             guessedLocations |-> guessedLocations \cup {location},
             result |-> GuessResult(FALSE, FALSE, FALSE)]

getRemainingShipsCount(board) ==
  Cardinality({i \in DOMAIN board.ships : ~isSunk(board.ships[i])})

\* new CPUPlayer(boardSize)
CPUPlayer(boardSize) ==
  [boardSize |-> boardSize, guessedLocations |-> {}, mode |-> "hunt",
   targetQueue |-> <<>>]

AllCells(size) == {Loc(row, col) : row \in 0..(size - 1), col \in 0..(size - 1)}

\* faulty variant: the cell is drawn once, without the retry loop
makeRandomGuessOnce(cpu) == AllCells(cpu.boardSize)

\* the cells that makeRandomGuess() can return: the do-while loop draws a
\* cell until one is not in guessedLocations
makeRandomGuess(cpu) == AllCells(cpu.boardSize) \ cpu.guessedLocations

\* cpu.makeGuess(), with random the cell that makeRandomGuess returns if the
\* call gets to it: the guess, and the CPU player after the call
RECURSIVE makeGuess(_, _)
makeGuess(cpu, random) ==
  IF cpu.mode = "target" /\ Len(cpu.targetQueue) > 0
  THEN LET guess == Head(cpu.targetQueue)
           shifted == [cpu EXCEPT !.targetQueue = Tail(@)]
       IN IF guess \in cpu.guessedLocations
          THEN makeGuess(IF Len(shifted.targetQueue) = 0
                         THEN [shifted EXCEPT !.mode = "hunt"]
                         ELSE shifted, random)
          ELSE [guess |-> guess, cpu |-> shifted]
  ELSE [guess |-> random, cpu |-> [cpu EXCEPT !.mode = "hunt"]]

\* the forEach of addAdjacentTargets over the cells left in adjacent
RECURSIVE PushTargets(_, _)
PushTargets(cpu, adjacent) ==
  IF adjacent = <<>> THEN cpu
  ELSE LET r == Head(adjacent)[1]
           c == Head(adjacent)[2]
           adjLocation == Loc(r, c)
       IN PushTargets(
            IF /\ isValidCoordinate(cpu.boardSize, r, c)
               /\ adjLocation \notin cpu.guessedLocations
               /\ ~InSeq(cpu.targetQueue, adjLocation)
            THEN [cpu EXCEPT !.targetQueue = Append(@, adjLocation)]
            ELSE cpu,
            Tail(adjacent))

\* faulty variant: every neighbour on the board is queued, guessed or not
addAdjacentUnchecked(cpu, location) ==
  LET row == parseLocation(location)[1]
      col == parseLocation(location)[2]
      adjacent == << <<row - 1, col>>, <<row + 1, col>>,
                     <<row, col - 1>>, <<row, col + 1>> >>
      OnBoard(rc) == isValidCoordinate(cpu.boardSize, rc[1], rc[2])
      kept == SelectSeq(adjacent, OnBoard)
  IN [cpu EXCEPT !.targetQueue =
        @ \o [i \in DOMAIN kept |-> Loc(kept[i][1], kept[i][2])]]

addAdjacentTargets(cpu, location) ==
  LET row == parseLocation(location)[1]
      col == parseLocation(location)[2]
  IN PushTargets(cpu, << <<row - 1, col>>, <<row + 1, col>>,
                         <<row, col - 1>>, <<row, col + 1>> >>)

processGuessResult(cpu, location, wasHit, wasSunk) ==
  IF wasHit
  THEN IF wasSunk
       THEN [cpu EXCEPT !.mode = "hunt", !.targetQueue = <<>>]
       ELSE addAdjacentTargets([cpu EXCEPT !.mode = "target"], location)
  ELSE IF cpu.mode = "target" /\ Len(cpu.targetQueue) = 0
  THEN [cpu EXCEPT !.mode = "hunt"]
  ELSE cpu

\* guess && guess.length === 2 && /^\d{2}$/.test(guess)
isValidGuessFormat(guess) ==
  Len(guess) > 0 /\ Len(guess) = 2 /\ AllChars(guess, IsDigit)

\* the cells in row-major order
CellOrder(size) ==
  [i \in 1..(size * size) |-> Loc((i - 1) \div size, (i - 1) % size)]

\* what the player types at the prompt: text that is no location, a
\* location off the board, a location guessed before, or one of the first
\* MaxFresh locations not guessed yet
MaxFresh == 1
Answers(g) ==
  LET order == CellOrder(g.boardSize)
      fresh == {i \in DOMAIN order : order[i] \notin g.playerGuesses}
  IN {"", "0", "000", "a0", Loc(0, g.boardSize), Loc(g.boardSize, 0)}
       \cup g.playerGuesses
       \cup {order[i] : i \in {j \in fresh :
                Cardinality({m \in fresh : m < j}) < MaxFresh}}

NoResultYet == GuessResult(FALSE, FALSE, FALSE)

\* new SeaBattleGame(boardSize, numShips, shipLength); pc is the place of the
\* game: "new" (constructed), "loop" (at the top of gameLoop), "cpu" (before
\* processCPUTurn), "report" (in processCPUTurn, before
\* cpu.processGuessResult), "over" (the loop has returned);
\* playerGuessResult, cpuGuess and cpuResult are the locals of the last
\* turn, announced the showGameOver calls made
SeaBattleGame(boardSize, numShips, shipLength) ==
  [pc |-> "new",
   boardSize |-> boardSize, numShips |-> numShips, shipLength |-> shipLength,
   playerBoard |-> Board(boardSize), cpuBoard |-> Board(boardSize),
   cpu |-> CPUPlayer(boardSize), playerGuesses |-> {},
   playerGuessResult |-> FALSE,
   cpuGuess |-> "", cpuResult |-> NoResultYet,
   announced |-> <<>>]

validatorVars ==
  <<heap, made, target, input, path, result, lastIndex, now, stack>>

\* startGame: setupGame places the ships on both boards
SetupGame ==
  /\ game.pc = "new"
  /\ \E pb \in placeShipsRandomly(game.playerBoard, game.numShips,
                                   game.shipLength) :
     \E cb \in placeShipsRandomly(game.cpuBoard, game.numShips,
                                   game.shipLength) :
       game' = [game EXCEPT !.playerBoard = pb, !.cpuBoard = cb,
                            !.pc = "loop"]
  /\ UNCHANGED validatorVars

\* gameLoop finds a fleet sunk: it announces the winner and returns
GameOver ==
  /\ game.pc = "loop"
  /\ \/ getRemainingShipsCount(game.cpuBoard) = 0
     \/ getRemainingShipsCount(game.playerBoard) = 0
  /\ game' = [game EXCEPT
       !.announced = Append(@, IF getRemainingShipsCount(game.cpuBoard) = 0
                               THEN "player" ELSE "cpu"),
       !.pc = "over"]
  /\ UNCHANGED validatorVars

\* faulty variant: a location guessed before is passed on to the board
processPlayerTurnRepeat(g, guess) ==
  IF ~isValidGuessFormat(guess)
  THEN [g EXCEPT !.playerGuessResult = FALSE]
  ELSE IF ~isValidCoordinate(g.cpuBoard.size, parseLocation(guess)[1],
                             parseLocation(guess)[2])
  THEN [g EXCEPT !.playerGuessResult = FALSE]
  ELSE LET r == processGuess(g.cpuBoard, guess, g.playerGuesses)
       IN [g EXCEPT !.playerGuessResult = TRUE,
                    !.cpuBoard = r.board,
                    !.playerGuesses = r.guessedLocations]

\* processPlayerTurn(guess): the game after the call, playerGuessResult
\* holding the value returned
processPlayerTurn(g, guess) ==
  IF ~isValidGuessFormat(guess)
  THEN [g EXCEPT !.playerGuessResult = FALSE]
  ELSE IF ~isValidCoordinate(g.cpuBoard.size, parseLocation(guess)[1],
                             parseLocation(guess)[2])
  THEN [g EXCEPT !.playerGuessResult = FALSE]
  ELSE IF guess \in g.playerGuesses
  THEN [g EXCEPT !.playerGuessResult = FALSE]
  ELSE LET r == processGuess(g.cpuBoard, guess, g.playerGuesses)
       IN [g EXCEPT !.playerGuessResult = TRUE,
                    !.cpuBoard = r.board,
                    !.playerGuesses = r.guessedLocations]

\* gameLoop with both fleets afloat: the player's answer is read and
\* processed; the CPU's turn follows if the guess was accepted and a CPU
\* ship is left, otherwise the loop starts again
PlayerTurn ==
  /\ game.pc = "loop"
  /\ getRemainingShipsCount(game.cpuBoard) # 0
  /\ getRemainingShipsCount(game.playerBoard) # 0
  /\ \E answer \in Answers(game) :
       LET g == processPlayerTurn(game, answer)
       IN game' = [g EXCEPT !.pc =
                     IF g.playerGuessResult
                        /\ getRemainingShipsCount(g.cpuBoard) > 0
                     THEN "cpu" ELSE "loop"]
  /\ UNCHANGED validatorVars

\* processCPUTurn() down to the board's answer: cpu.makeGuess() and
\* playerBoard.processGuess(cpuGuess, cpu.guessedLocations)
CPUGuess ==
  /\ game.pc = "cpu"
  /\ \E random \in makeRandomGuess(game.cpu) :
       LET m == makeGuess(game.cpu, random)
           r == processGuess(game.playerBoard, m.guess,
                             m.cpu.guessedLocations)
       IN game' = [game EXCEPT
            !.cpuGuess = m.guess, !.cpuResult = r.result,
            !.playerBoard = r.board,
            !.cpu = [m.cpu EXCEPT !.guessedLocations = r.guessedLocations],
            !.pc = "report"]
  /\ UNCHANGED validatorVars

\* the rest of processCPUTurn(): cpu.processGuessResult(cpuGuess, result.hit,
\* result.sunk), then the loop starts again
CPUResult ==
  /\ game.pc = "report"
  /\ game' = [game EXCEPT
       !.cpu = processGuessResult(@, game.cpuGuess, game.cpuResult.hit,
                                  game.cpuResult.sunk),
       !.pc = "loop"]
  /\ UNCHANGED validatorVars

InitGame ==
  /\ heap = <<SchemaDate>>
  /\ made = <<Made("Schema", 0, "")>>
  /\ target = 0
  /\ input = Undef
  /\ path = "root"
  /\ result = NoResult
  /\ lastIndex = 0
  /\ now = 0
  /\ stack = <<>>
  /\ \E args \in Games : game = SeaBattleGame(args[1], args[2], args[3])

NextGame == SetupGame \/ PlayerTurn \/ CPUGuess \/ CPUResult \/ GameOver

SpecGame == InitGame /\ [][NextGame]_vars

\* C28: every CPU turn fires at a location the CPU had not guessed before,
\* in hunt mode and in target mode alike; the location joins
\* guessedLocations, and processGuess never answers a CPU guess with
\* alreadyGuessed.
C28_NeverTwice ==
  /\ [](game.pc # "none" => ~game.cpuResult.alreadyGuessed)
  /\ [][game.pc = "cpu" =>
          /\ game'.cpuGuess \notin game.cpu.guessedLocations
          /\ game'.cpu.guessedLocations =
               game.cpu.guessedLocations \cup {game'.cpuGuess}]_vars

\* the CPU has fired from its target queue, with cells guessed before
C28_Witness ==
  /\ game.pc = "report"
  /\ game.cpu.mode = "target"
  /\ Cardinality(game.cpu.guessedLocations) >= 4
  /\ ~game.cpuResult.alreadyGuessed

\* the CPU has fired at random with two cells left to guess
C28_WitnessHunt ==
  /\ game.pc = "report"
  /\ game.cpu.mode = "hunt"
  /\ game.boardSize = 3
  /\ Cardinality(game.cpu.guessedLocations) = 8

\* the cells of a board of the given size that are orthogonal neighbours of
\* the location
Neighbours(size, location) ==
  LET rc == parseLocation(location)
      Dist(a, b) == IF a < b THEN b - a ELSE a - b
  IN {Loc(r, c) : r \in 0..(size - 1), c \in 0..(size - 1)}
       \cap {l \in AllCells(size) :
               Dist(parseLocation(l)[1], rc[1])
                 + Dist(parseLocation(l)[2], rc[2]) = 1}

Range(seq) == {seq[i] : i \in DOMAIN seq}

\* the step of cpu.processGuessResult(cpuGuess, result.hit, result.sunk)
\* from CPU state c to d
ResultStep(c, d, location, wasHit, wasSunk) ==
  LET open == Neighbours(c.boardSize, location) \ c.guessedLocations
  IN /\ d.guessedLocations = c.guessedLocations
     /\ wasHit /\ ~wasSunk =>
          /\ d.mode = "target"
          /\ Len(d.targetQueue) >= Len(c.targetQueue)
          /\ SubSeq(d.targetQueue, 1, Len(c.targetQueue)) = c.targetQueue
          /\ Range(d.targetQueue) = Range(c.targetQueue) \cup open
          /\ Len(d.targetQueue) =
               Len(c.targetQueue)
                 + Cardinality(open \ Range(c.targetQueue))
     /\ wasHit /\ wasSunk => d.mode = "hunt" /\ d.targetQueue = <<>>
     /\ ~wasHit =>
          /\ d.targetQueue = c.targetQueue
          /\ d.mode = IF c.mode = "target" /\ c.targetQueue = <<>>
                      THEN "hunt" ELSE c.mode

\* in hunt mode the queue is empty; the queue holds no cell twice, no cell
\* off the board and no guessed cell
QueueSound(c) ==
  /\ c.mode \in {"hunt", "target"}
  /\ c.mode = "hunt" => c.targetQueue = <<>>
  /\ Cardinality(Range(c.targetQueue)) = Len(c.targetQueue)
  /\ Range(c.targetQueue) \subseteq AllCells(c.boardSize)
  /\ Range(c.targetQueue) \cap c.guessedLocations = {}

\* C29: processGuessResult sets target mode and queues the open neighbours
\* not yet queued on a hit that does not sink, sets hunt mode and empties the
\* queue on a sinking hit, and on a miss changes nothing but target mode with
\* an empty queue, which becomes hunt; at every point of the game the queue
\* is empty in hunt mode and holds no duplicate, no cell off the board and
\* no guessed cell.
C29_StateMachine ==
  /\ [](game.pc # "none" => QueueSound(game.cpu))
  /\ [][game.pc = "report" =>
          ResultStep(game.cpu, game'.cpu, game.cpuGuess, game.cpuResult.hit,
                     game.cpuResult.sunk)]_vars

\* a hit that did not sink has put the CPU in target mode behind a queue
\* that already held a cell
C29_Witness ==
  /\ game.pc = "loop"
  /\ game.cpuResult.hit /\ ~game.cpuResult.sunk
  /\ game.cpu.mode = "target"
  /\ Len(game.cpu.targetQueue) >= 4

\* a sinking hit has emptied the queue while the player has a ship left
C29_WitnessSunk ==
  /\ game.pc = "loop"
  /\ game.cpuResult.sunk
  /\ game.cpu.mode = "hunt" /\ game.cpu.targetQueue = <<>>
  /\ getRemainingShipsCount(game.playerBoard) > 0

\* the last queued cell was a miss: processGuessResult is about to be called
\* in target mode with an empty queue
C29_WitnessFallback ==
  /\ game.pc = "report"
  /\ ~game.cpuResult.hit
  /\ game.cpu.mode = "target" /\ game.cpu.targetQueue = <<>>

\* a miss has left target mode and the queue as they were
C29_WitnessMiss ==
  /\ game.pc = "loop"
  /\ ~game.cpuResult.hit /\ game.cpuGuess # ""
  /\ game.cpu.mode = "target" /\ game.cpu.targetQueue # <<>>

\* a fleet is sunk when its board has ships and none of them is afloat
Afloat(board) == \E i \in DOMAIN board.ships : ~isSunk(board.ships[i])
Started == game.pc \notin {"none", "new"}

\* the game after a turn of the player who typed the answer: an answer that
\* is a cell of the board not guessed before is accepted and joins
\* playerGuesses, and the CPU is next if a CPU ship is afloat then; any
\* other answer leaves boards, guess sets and CPU as they were and the
\* player is asked again
AfterAnswer(g, h, answer) ==
  IF answer \in AllCells(g.boardSize) \ g.playerGuesses
  THEN /\ h.playerGuessResult
       /\ h.playerGuesses = g.playerGuesses \cup {answer}
       /\ h.playerBoard = g.playerBoard /\ h.cpu = g.cpu
       /\ h.pc = IF Afloat(h.cpuBoard) THEN "cpu" ELSE "loop"
  ELSE /\ ~h.playerGuessResult
       /\ h.playerGuesses = g.playerGuesses
       /\ h.playerBoard = g.playerBoard /\ h.cpuBoard = g.cpuBoard
       /\ h.cpu = g.cpu
       /\ h.pc = "loop"

\* the steps of the game loop
LoopStep(g, h) ==
  /\ g.pc = "loop" /\ Afloat(g.cpuBoard) /\ Afloat(g.playerBoard) =>
       \E answer \in Answers(g) : AfterAnswer(g, h, answer)
  /\ g.pc = "loop" /\ ~(Afloat(g.cpuBoard) /\ Afloat(g.playerBoard)) =>
       h.pc = "over"
  /\ h.pc = "over" => g.pc = "loop"
  /\ h.pc \in {"cpu", "report"} /\ g.pc = "loop" =>
       h.playerGuessResult /\ Afloat(h.cpuBoard)
  /\ g.pc \in {"cpu", "report"} =>
       h.cpuBoard = g.cpuBoard /\ h.playerGuesses = g.playerGuesses

\* C30: the CPU moves only after an accepted player guess that leaves a CPU
\* ship afloat; a rejected guess changes no board and no guess set; the loop
\* returns exactly when a fleet is sunk; the two fleets are never both sunk
\* and exactly one winner is announced, the one whose fleet is afloat.
C30_TurnOrder ==
  /\ [](Started =>
          /\ Afloat(game.cpuBoard) \/ Afloat(game.playerBoard)
          /\ game.pc \in {"cpu", "report"} =>
               /\ game.playerGuessResult
               /\ Afloat(game.cpuBoard)
          /\ game.pc = "over" =>
               /\ ~(Afloat(game.cpuBoard) /\ Afloat(game.playerBoard))
               /\ game.announced =
                    <<IF Afloat(game.playerBoard) THEN "player" ELSE "cpu">>
          /\ game.pc # "over" => game.announced = <<>>)
  /\ [][Started => LoopStep(game, game')]_vars

\* the CPU has sunk the player's fleet and has been announced as the winner
C30_Witness ==
  /\ game.pc = "over"
  /\ game.announced = <<"cpu">>
  /\ game.playerGuesses # {}

\* the player has sunk the CPU's fleet: the CPU got no turn after the last
\* guess
C30_WitnessPlayer ==
  /\ game.pc = "over"
  /\ game.announced = <<"player">>
  /\ Cardinality(game.playerGuesses) > Cardinality(game.cpu.guessedLocations)

\* a guess has been rejected in the middle of a game
C30_WitnessRejected ==
  /\ game.pc = "loop"
  /\ ~game.playerGuessResult
  /\ game.playerGuesses # {}
  /\ Afloat(game.cpuBoard) /\ Afloat(game.playerBoard)

====
